---- MODULE Spec2Model ----
(***************************************************************************)
(* Model of the YAML dumper of src/yaml/_dumper_state.ts (DumperState and  *)
(* its helpers).  Text is a sequence of UTF-16 code units (naturals); JS   *)
(* string indices are 0-based and are kept 0-based through At and Slice.   *)
(***************************************************************************)
EXTENDS Integers, Sequences, FiniteSets, TLC

VARIABLES
    cfg,             \* the DumperState's options (constructor, lines 487-513)
    heap,            \* the caller's objects: id -> array or plain object
    data,            \* the value passed to stringify
    calls,           \* number of stringify calls made on this DumperState
    pc,              \* "ready" (stringify not yet called on data) or "done"
    duplicates,      \* DumperState.duplicates (line 483)
    usedDuplicates,  \* DumperState.usedDuplicates (line 484)
    scan,            \* what the last pre-scan found (objects, duplicateObjects)
    returned,        \* what the last stringify call returned or threw
    sString,         \* scalar encoder: the string given to stringifyScalar
    sLevel,          \* scalar encoder: level
    sIsKey,          \* scalar encoder: isKey
    sResult,         \* scalar encoder: what stringifyScalar returned
    entry,           \* TarEntry: #size, #entrySize, #read, #consumed (1064-1068)
    reader,          \* the archive reader the entry reads its body from
    delivered,       \* bytes the caller received from TarEntry.read so far
    lastRead,        \* what the last TarEntry.read call returned
    seekable,        \* whether the archive reader has a seek method
    headerRead,      \* where Untar.extract read the next header block
    fLine,           \* foldLine: the line given
    fWidth,          \* foldLine: the width given
    fResult          \* foldLine: what it returned

vars == <<cfg, heap, data, calls, pc, duplicates, usedDuplicates, scan, returned,
          sString, sLevel, sIsKey, sResult, entry, reader, delivered, lastRead,
          seekable, headerRead,
          fLine, fWidth, fResult>>

treeVars == <<heap, data, calls, pc, duplicates, usedDuplicates, scan, returned>>
scalarVars == <<sString, sLevel, sIsKey, sResult>>
tarVars == <<entry, reader, delivered, lastRead, seekable, headerRead>>
foldVars == <<fLine, fWidth, fResult>>

(***************************************************************************)
(* Bounds of the model.                                                    *)
(***************************************************************************)
MaxLen == 3        \* longest string given to the scalar encoder
MaxItems == 3      \* most entries of the container under test
MaxStack == 4      \* nested stringifyNode / inspectNode calls the stack holds
MaxCalls == 2      \* stringify calls on one DumperState
MaxFileSize == 600 \* largest content size of a tar entry
MaxBuffer == 700   \* largest buffer handed to TarEntry.read
MaxLineLen == 7    \* longest line given to foldLine
MaxWidth == 3      \* largest width given to foldLine

(***************************************************************************)
(* Characters (src/yaml/_chars.ts, imported at lines 6-28) and styles.     *)
(***************************************************************************)
AMPERSAND == 38
ASTERISK == 42
COLON == 58
COMMA == 44
COMMERCIAL_AT == 64
DOUBLE_QUOTE == 34
EXCLAMATION == 33
GRAVE_ACCENT == 96
GREATER_THAN == 62
LEFT_CURLY_BRACKET == 123
LEFT_SQUARE_BRACKET == 91
LINE_FEED == 10
MINUS == 45
PERCENT == 37
QUESTION == 63
RIGHT_CURLY_BRACKET == 125
RIGHT_SQUARE_BRACKET == 93
SHARP == 35
SINGLE_QUOTE == 39
VERTICAL_LINE == 124
SPACE == 32
TAB == 9
PLUS == 43
BACKSLASH == 92
BELL == 7
TILDE == 126
LOWER_N == 110

STYLE_PLAIN == 1
STYLE_SINGLE == 2
STYLE_LITERAL == 3
STYLE_FOLDED == 4
STYLE_DOUBLE == 5

\* isWhiteSpace of _chars.ts: space or tab.
isWhiteSpace(c) == c = SPACE \/ c = TAB

(***************************************************************************)
(* JS string primitives.                                                   *)
(***************************************************************************)
\* string[i] / string.charCodeAt(i); -1 stands for undefined / NaN.
At(s, i) == IF i >= 0 /\ i < Len(s) THEN s[i + 1] ELSE -1

\* string.slice(a, b) for 0 <= a, b <= length.
Slice(s, a, b) == IF b <= a THEN <<>> ELSE SubSeq(s, a + 1, b)

\* " ".repeat(n)
Repeat(c, n) == [i \in 1..n |-> c]

\* string.indexOf(c, from), or -1.
IndexOfFrom(s, c, from) ==
    IF \E i \in from..(Len(s) - 1) : At(s, i) = c
    THEN CHOOSE i \in from..(Len(s) - 1) :
            At(s, i) = c /\ \A j \in from..(i - 1) : At(s, j) # c
    ELSE -1

\* string.split("\n")
RECURSIVE Split(_)
Split(s) ==
    LET k == IndexOfFrom(s, LINE_FEED, 0)
    IN  IF k = -1 THEN <<s>>
        ELSE <<Slice(s, 0, k)>> \o Split(Slice(s, k + 1, Len(s)))

\* lines.join(sep)
RECURSIVE Join(_, _)
Join(lines, sep) ==
    IF lines = <<>> THEN <<>>
    ELSE IF Len(lines) = 1 THEN lines[1]
    ELSE lines[1] \o sep \o Join(Tail(lines), sep)

\* String(n) for a natural n: its decimal digits.
RECURSIVE Decimal(_)
Decimal(n) == IF n < 10 THEN <<48 + n>> ELSE Decimal(n \div 10) \o <<48 + (n % 10)>>

\* n.toString(16).toUpperCase()
RECURSIVE HexUpper(_)
HexUpper(n) ==
    LET d == n % 16
        ch == IF d < 10 THEN 48 + d ELSE 65 + (d - 10)
    IN  IF n < 16 THEN <<ch>> ELSE HexUpper(n \div 16) \o <<ch>>

\* string.padStart(n, "0")
PadStart0(s, n) == Repeat(48, n - Len(s)) \o s

ESCAPE_SEQUENCES ==
    [c \in {0, 7, 8, 9, 10, 11, 12, 13, 27, 34, 92, 133, 160, 8232, 8233} |->
        CASE c = 0 -> <<BACKSLASH, 48>>
          [] c = 7 -> <<BACKSLASH, 97>>
          [] c = 8 -> <<BACKSLASH, 98>>
          [] c = 9 -> <<BACKSLASH, 116>>
          [] c = 10 -> <<BACKSLASH, 110>>
          [] c = 11 -> <<BACKSLASH, 118>>
          [] c = 12 -> <<BACKSLASH, 102>>
          [] c = 13 -> <<BACKSLASH, 114>>
          [] c = 27 -> <<BACKSLASH, 101>>
          [] c = 34 -> <<BACKSLASH, DOUBLE_QUOTE>>
          [] c = 92 -> <<BACKSLASH, BACKSLASH>>
          [] c = 133 -> <<BACKSLASH, 78>>
          [] c = 160 -> <<BACKSLASH, 95>>
          [] c = 8232 -> <<BACKSLASH, 76>>
          [] c = 8233 -> <<BACKSLASH, 80>>]

\* "y", "Y", "yes", "Yes", "YES", "on", "On", "ON",
\* "n", "N", "no", "No", "NO", "off", "Off", "OFF"
DEPRECATED_BOOLEANS_SYNTAX ==
    { <<121>>, <<89>>, <<121, 101, 115>>, <<89, 101, 115>>, <<89, 69, 83>>,
      <<111, 110>>, <<79, 110>>, <<79, 78>>,
      <<110>>, <<78>>, <<110, 111>>, <<78, 111>>, <<78, 79>>,
      <<111, 102, 102>>, <<79, 102, 102>>, <<79, 70, 70>> }

\* Encodes a code unit as a hexadecimal escape; "throw" above 0xFFFFFFFF.
charCodeToHexString(charCode) ==
    IF charCode <= 255 THEN <<BACKSLASH, 120>> \o PadStart0(HexUpper(charCode), 2)
    ELSE IF charCode <= 65535 THEN <<BACKSLASH, 117>> \o PadStart0(HexUpper(charCode), 4)
    ELSE <<BACKSLASH, 85>> \o PadStart0(HexUpper(charCode), 8)

\* Indents every line in a string. Empty lines are not indented.
indentString(string, spaces) ==
    LET lines == Split(string)
    IN  Join([i \in 1..Len(lines) |->
                IF Len(lines[i]) # 0 THEN Repeat(SPACE, spaces) \o lines[i]
                ELSE lines[i]],
             <<LINE_FEED>>)

generateNextLine(indent, level) == <<LINE_FEED>> \o Repeat(SPACE, indent * level)

(***************************************************************************)
(* Character classifier.                                                   *)
(***************************************************************************)
isPrintable_lineFeed(c) == (32 <= c /\ c <= 126) \/ c = LINE_FEED

isPrintable(c) ==
    \/ (32 <= c /\ c <= 126)
    \/ (161 <= c /\ c <= 55295 /\ c # 8232 /\ c # 8233)
    \/ (57344 <= c /\ c <= 65533 /\ c # 65279)
    \/ (65536 <= c /\ c <= 1114111)

isPlainSafe(c) ==
    /\ isPrintable(c)
    /\ c # 65279
    /\ c # COMMA
    /\ c # LEFT_SQUARE_BRACKET
    /\ c # RIGHT_SQUARE_BRACKET
    /\ c # LEFT_CURLY_BRACKET
    /\ c # RIGHT_CURLY_BRACKET
    /\ c # COLON
    /\ c # SHARP

isPlainSafeFirst(c) ==
    /\ isPrintable(c)
    /\ c # 65279
    /\ ~isWhiteSpace(c)
    /\ c \notin {MINUS, QUESTION, COLON, COMMA, LEFT_SQUARE_BRACKET,
                 RIGHT_SQUARE_BRACKET, LEFT_CURLY_BRACKET, RIGHT_CURLY_BRACKET,
                 SHARP, AMPERSAND, ASTERISK, EXCLAMATION, VERTICAL_LINE,
                 GREATER_THAN, SINGLE_QUOTE, DOUBLE_QUOTE,
                 PERCENT, COMMERCIAL_AT, GRAVE_ACCENT}

\* LEADING_SPACE_REGEXP = /^\n* /
needIndentIndicator(string) ==
    \E k \in 0..(Len(string) - 1) :
        /\ At(string, k) = SPACE
        /\ \A j \in 0..(k - 1) : At(string, j) = LINE_FEED

\* The implicit types' resolve functions (schema, _type/*.ts): of the strings
\* of the model's alphabet only "~" resolves (as null).
implicitResolve(str) == str = <<TILDE>>

testImplicitResolving(str) == implicitResolve(str)

(***************************************************************************)
(* Scalar encoder.                                                         *)
(***************************************************************************)
\* The loop of the singleLineOnly case (lines 225-231).
RECURSIVE scanSingleLine(_, _, _)
scanSingleLine(string, i, st) ==
    IF i >= Len(string) THEN st
    ELSE LET char == At(string, i)
         IN  IF ~isPrintable(char) THEN [st EXCEPT !.double = TRUE]
             ELSE scanSingleLine(string, i + 1,
                                 [st EXCEPT !.plain = st.plain /\ isPlainSafe(char)])

\* The loop of the block-styles-permitted case (lines 234-250).
RECURSIVE scanBlock(_, _, _, _)
scanBlock(string, lineWidth, i, st) ==
    IF i >= Len(string) THEN st
    ELSE LET char == At(string, i)
             shouldTrackWidth == lineWidth # -1
         IN  IF char = LINE_FEED
             THEN scanBlock(string, lineWidth, i + 1,
                    [st EXCEPT
                       !.hasLineBreak = TRUE,
                       !.hasFoldableLine =
                          IF shouldTrackWidth
                          THEN st.hasFoldableLine \/
                               (i - st.previousLineBreak - 1 > lineWidth /\
                                At(string, st.previousLineBreak + 1) # SPACE)
                          ELSE st.hasFoldableLine,
                       !.previousLineBreak =
                          IF shouldTrackWidth THEN i ELSE st.previousLineBreak,
                       !.plain = st.plain /\ isPlainSafe(char)])
             ELSE IF ~isPrintable(char) THEN [st EXCEPT !.double = TRUE]
             ELSE scanBlock(string, lineWidth, i + 1,
                            [st EXCEPT !.plain = st.plain /\ isPlainSafe(char)])

\* Mutant of preferredStyle: plain style is never chosen.
preferredStyle_neverPlain(hasLineBreak, hasFoldableLine, plain, ambiguous, indentPerLevel, needIndicator) ==
    IF ~hasLineBreak /\ ~hasFoldableLine THEN STYLE_SINGLE
    ELSE IF indentPerLevel > 9 /\ needIndicator THEN STYLE_DOUBLE
    ELSE IF hasFoldableLine THEN STYLE_FOLDED ELSE STYLE_LITERAL

preferredStyle_alwaysFolds(hasLineBreak, hasFoldableLine, plain, ambiguous, indentPerLevel, needIndicator) ==
    IF ~hasLineBreak /\ ~hasFoldableLine
    THEN (IF plain /\ ~ambiguous THEN STYLE_PLAIN ELSE STYLE_SINGLE)
    ELSE IF indentPerLevel > 9 /\ needIndicator THEN STYLE_DOUBLE
    ELSE STYLE_FOLDED

\* The resolution of chooseScalarStyle once the string is scanned (lines 260-271).
preferredStyle(hasLineBreak, hasFoldableLine, plain, ambiguous, indentPerLevel, needIndicator) ==
    IF ~hasLineBreak /\ ~hasFoldableLine
    THEN (IF plain /\ ~ambiguous THEN STYLE_PLAIN ELSE STYLE_SINGLE)
    ELSE IF indentPerLevel > 9 /\ needIndicator THEN STYLE_DOUBLE
    ELSE IF hasFoldableLine THEN STYLE_FOLDED ELSE STYLE_LITERAL

\* Determines which scalar styles are possible and returns the preferred
\* style.  ambiguous is testAmbiguousType(string).  Pre-condition: Len > 0.
chooseScalarStyle(string, singleLineOnly, indentPerLevel, lineWidth, ambiguous) ==
    LET shouldTrackWidth == lineWidth # -1
        st0 == [hasLineBreak |-> FALSE, hasFoldableLine |-> FALSE,
                previousLineBreak |-> -1, double |-> FALSE,
                plain |-> isPlainSafeFirst(At(string, 0)) /\
                          ~isWhiteSpace(At(string, Len(string) - 1))]
        st1 == IF singleLineOnly THEN scanSingleLine(string, 0, st0)
               ELSE scanBlock(string, lineWidth, 0, st0)
        \* in case the end is missing a \n (lines 252-255)
        hasFoldableLine ==
            IF singleLineOnly THEN st1.hasFoldableLine
            ELSE st1.hasFoldableLine \/
                 (shouldTrackWidth /\
                  Len(string) - st1.previousLineBreak - 1 > lineWidth /\
                  At(string, st1.previousLineBreak + 1) # SPACE)
    IN  IF st1.double THEN STYLE_DOUBLE
        ELSE preferredStyle(st1.hasLineBreak, hasFoldableLine, st1.plain, ambiguous,
                            indentPerLevel, needIndentIndicator(string))

breakMatches_anySpace(line) == SelectSeq([i \in 1..Len(line) |-> i - 1], LAMBDA i : At(line, i) = SPACE)

\* The match indexes of / [^ ]/g in line, in order.
breakMatches(line) ==
    SelectSeq([i \in 1..Len(line) |-> i - 1],
              LAMBDA i : At(line, i) = SPACE /\ i + 1 < Len(line) /\ At(line, i + 1) # SPACE)

RECURSIVE foldLoop_breaksAtNext(_, _, _, _, _)
foldLoop_breaksAtNext(line, width, matches, k, st) ==
    IF k > Len(matches) THEN st
    ELSE LET next == matches[k]
         IN  foldLoop_breaksAtNext(line, width, matches, k + 1,
                IF next - st.start > width
                THEN [start |-> next + 1, curr |-> next, next |-> next,
                      lines |-> Append(st.lines, Slice(line, st.start, next))]
                ELSE [st EXCEPT !.curr = next, !.next = next])

\* The for-loop of foldLine over the matches (lines 294-304).
RECURSIVE foldLoop(_, _, _, _, _)
foldLoop(line, width, matches, k, st) ==
    IF k > Len(matches) THEN st
    ELSE LET next == matches[k]
             end == IF st.curr > st.start THEN st.curr ELSE next
         IN  foldLoop(line, width, matches, k + 1,
                IF next - st.start > width
                THEN [start |-> end + 1, curr |-> next, next |-> next,
                      lines |-> Append(st.lines, Slice(line, st.start, end))]
                ELSE [st EXCEPT !.curr = next, !.next = next])

\* Mutant of trimTrailingNewline: the ending newline is kept.
trimTrailingNewline_keeps(string) == string

\* Greedy line breaking.
foldLine(line, width) ==
    IF line = <<>> \/ At(line, 0) = SPACE THEN line
    ELSE LET st == foldLoop(line, width, breakMatches(line), 1,
                            [start |-> 0, curr |-> 0, next |-> 0, lines |-> <<>>])
             lines == IF Len(line) - st.start > width /\ st.curr > st.start
                      THEN st.lines \o <<Slice(line, st.start, st.curr),
                                         Slice(line, st.curr + 1, Len(line))>>
                      ELSE Append(st.lines, Slice(line, st.start, Len(line)))
         IN  Join(lines, <<LINE_FEED>>)

trimTrailingNewline(string) ==
    IF At(string, Len(string) - 1) = LINE_FEED
    THEN Slice(string, 0, Len(string) - 1) ELSE string

\* First index >= from whose character is not (want = FALSE) or is
\* (want = TRUE) a line feed; the length when there is none.
RECURSIVE skipTo(_, _, _)
skipTo(s, from, want) ==
    IF from >= Len(s) THEN Len(s)
    ELSE IF (At(s, from) = LINE_FEED) = want THEN from
    ELSE skipTo(s, from + 1, want)

\* The while-loop of foldString over /(\n+)([^\n]*)/g from lastIndex.
RECURSIVE foldRest(_, _, _, _, _)
foldRest(string, width, lastIndex, result, prevMoreIndented) ==
    IF lastIndex >= Len(string) THEN result
    ELSE LET lineStart == skipTo(string, lastIndex, FALSE)
             lineEnd == skipTo(string, lineStart, TRUE)
             prefix == Slice(string, lastIndex, lineStart)
             line == Slice(string, lineStart, lineEnd)
             moreIndented == At(line, 0) = SPACE
         IN  foldRest(string, width, lineEnd,
                      result \o prefix \o
                        (IF ~prevMoreIndented /\ ~moreIndented /\ line # <<>>
                         THEN <<LINE_FEED>> ELSE <<>>) \o
                        foldLine(line, width),
                      moreIndented)

foldString(string, width) ==
    LET lf == IndexOfFrom(string, LINE_FEED, 0)
        nextLF == IF lf # -1 THEN lf ELSE Len(string)
    IN  foldRest(string, width, nextLF, foldLine(Slice(string, 0, nextLF), width),
                 At(string, 0) = LINE_FEED \/ At(string, 0) = SPACE)

\* Escapes a double-quoted string.
RECURSIVE escapeFrom(_, _)
escapeFrom(string, i) ==
    IF i >= Len(string) THEN <<>>
    ELSE LET char == At(string, i)
             nextChar == At(string, i + 1)
         IN  IF char >= 55296 /\ char <= 56319 /\ nextChar >= 56320 /\ nextChar <= 57343
             THEN charCodeToHexString((char - 55296) * 1024 + nextChar - 56320 + 65536)
                    \o escapeFrom(string, i + 2)
             ELSE (IF char \notin DOMAIN ESCAPE_SEQUENCES /\ isPrintable(char)
                   THEN <<char>>
                   ELSE IF char \in DOMAIN ESCAPE_SEQUENCES THEN ESCAPE_SEQUENCES[char]
                   ELSE charCodeToHexString(char))
                    \o escapeFrom(string, i + 1)

escapeString(string) == escapeFrom(string, 0)

blockHeader(string, indentPerLevel) ==
    LET indentIndicator == IF needIndentIndicator(string) THEN Decimal(indentPerLevel)
                           ELSE <<>>
        clip == At(string, Len(string) - 1) = LINE_FEED
        keep == clip /\ (At(string, Len(string) - 2) = LINE_FEED \/ string = <<LINE_FEED>>)
        chomp == IF keep THEN <<PLUS>> ELSE IF clip THEN <<>> ELSE <<MINUS>>
    IN  indentIndicator \o chomp \o <<LINE_FEED>>

\* string.replace(/'/g, "''")
RECURSIVE doubleQuotes(_)
doubleQuotes(string) ==
    IF string = <<>> THEN <<>>
    ELSE (IF Head(string) = SINGLE_QUOTE THEN <<SINGLE_QUOTE, SINGLE_QUOTE>>
          ELSE <<Head(string)>>) \o doubleQuotes(Tail(string))

\* The width the scalar is folded to at this level (lines 529-541).
scalarIndent_zeroAtRoot(c, level) == c.indent * level
scalarIndent(c, level) == c.indent * (IF level > 1 THEN level ELSE 1)

scalarLineWidth(c, level) ==
    LET indent == scalarIndent(c, level)
        lo == IF c.lineWidth < 40 THEN c.lineWidth ELSE 40
        hi == c.lineWidth - indent
    IN  IF c.lineWidth = -1 THEN -1 ELSE IF lo > hi THEN lo ELSE hi

singleLineOnly(c, level, isKey) == isKey \/ (c.flowLevel > -1 /\ level >= c.flowLevel)

stringifyScalar(c, string, level, isKey) ==
    IF Len(string) = 0 THEN <<SINGLE_QUOTE, SINGLE_QUOTE>>
    ELSE IF c.compatMode /\ string \in DEPRECATED_BOOLEANS_SYNTAX
    THEN <<SINGLE_QUOTE>> \o string \o <<SINGLE_QUOTE>>
    ELSE
      LET indent == scalarIndent(c, level)
          lineWidth == scalarLineWidth(c, level)
          style == chooseScalarStyle(string, singleLineOnly(c, level, isKey), c.indent,
                                     lineWidth, testImplicitResolving(string))
      IN  CASE style = STYLE_PLAIN -> string
            [] style = STYLE_SINGLE ->
                 <<SINGLE_QUOTE>> \o doubleQuotes(string) \o <<SINGLE_QUOTE>>
            [] style = STYLE_LITERAL ->
                 <<VERTICAL_LINE>> \o blockHeader(string, c.indent) \o
                 trimTrailingNewline(indentString(string, indent))
            [] style = STYLE_FOLDED ->
                 <<GREATER_THAN>> \o blockHeader(string, c.indent) \o
                 trimTrailingNewline(indentString(foldString(string, lineWidth), indent))
            [] style = STYLE_DOUBLE ->
                 <<DOUBLE_QUOTE>> \o escapeString(string) \o <<DOUBLE_QUOTE>>

(***************************************************************************)
(* Values and objects.  A value is a string, a function (a kind no type of *)
(* the schema accepts) or a reference to an object of the heap; objects    *)
(* are compared by identity (their id).  A plain object lists its keys in  *)
(* insertion order, which is the order of Object.keys and Object.values.   *)
(***************************************************************************)
Str(t) == [k |-> "string", s |-> t, id |-> 0]
Func == [k |-> "function", s |-> <<>>, id |-> 0]
Ref(i) == [k |-> "object", s |-> <<>>, id |-> i]

Arr(items) == [kind |-> "array", keys |-> <<>>, items |-> items]
Obj(keys, items) == [kind |-> "object", keys |-> keys, items |-> items]

\* isObject of _utils.ts: value !== null && typeof value === "object".
isObject(object) == object.k = "object"

\* array.indexOf(x), 0-based, or -1.
IndexOf(seq, x) ==
    IF \E i \in 1..Len(seq) : seq[i] = x
    THEN (CHOOSE i \in 1..Len(seq) : seq[i] = x /\ \A j \in 1..(i - 1) : seq[j] # x) - 1
    ELSE -1

\* What a call returns: a string, null (the value is omitted) or an exception.
\* mut is the DumperState's mutable part as the call leaves it
\* (usedDuplicates) and log the layouts chosen so far, in render order.
Ok(s, mut) == [st |-> "ok", s |-> s, err |-> "", mut |-> mut]
Null(mut) == [st |-> "null", s |-> <<>>, err |-> "", mut |-> mut]
Throw(err, mut) == [st |-> "throw", s |-> <<>>, err |-> err, mut |-> mut]

(***************************************************************************)
(* Duplicate/anchor tracker: the pre-scan.                                 *)
(***************************************************************************)
\* The exception of a call stack that is exhausted.
StackOverflow == "RangeError: Maximum call stack size exceeded"

\* The unsupported-value error (lines 862-866).
Unacceptable == "TypeError: unacceptable kind of an object to dump"

\* The value of F at v, v being evaluated once: `const x = v; ... F(x)`.
With(v, F(_)) == CHOOSE out \in {F(x) : x \in {v}} : TRUE

\* Set.add on an insertion-ordered Set.
SetAdd(seq, x) == IF \E i \in 1..Len(seq) : seq[i] = x THEN seq ELSE Append(seq, x)

RECURSIVE inspectNode(_, _, _, _)
RECURSIVE inspectEntries(_, _, _, _, _)
\* Mutant of inspectNode: a node seen again is recorded and descended again.
inspectNode_redescend(h, object, st, depth) ==
    IF st.overflow THEN st
    ELSE IF depth > MaxStack THEN [st EXCEPT !.overflow = TRUE]
    ELSE IF ~isObject(object) THEN st
    ELSE inspectEntries(h, h[object.id].items, 1,
            IF IndexOf(st.objects, object.id) # -1
            THEN [st EXCEPT !.duplicateObjects = SetAdd(@, object.id)]
            ELSE [st EXCEPT !.objects = Append(@, object.id)], depth)

inspectNode_marksAll(h, object, st, depth) ==
    IF st.overflow THEN st
    ELSE IF depth > MaxStack THEN [st EXCEPT !.overflow = TRUE]
    ELSE IF ~isObject(object) THEN st
    ELSE IF IndexOf(st.objects, object.id) # -1 THEN st
    ELSE inspectEntries(h, h[object.id].items, 1,
                        [st EXCEPT !.objects = Append(@, object.id),
                                   !.duplicateObjects = SetAdd(@, object.id)], depth)

\* st = [objects, duplicateObjects, overflow]; depth counts the nested calls.
inspectNode(h, object, st, depth) ==
    IF st.overflow THEN st
    ELSE IF depth > MaxStack THEN [st EXCEPT !.overflow = TRUE]
    ELSE IF ~isObject(object) THEN st
    ELSE IF IndexOf(st.objects, object.id) # -1
    THEN [st EXCEPT !.duplicateObjects = SetAdd(@, object.id)]
    ELSE inspectEntries(h, h[object.id].items, 1,
                        [st EXCEPT !.objects = Append(@, object.id)], depth)

\* for (const value of entries) inspectNode(value, objects, duplicateObjects)
inspectEntries(h, entries, i, st, depth) ==
    IF i > Len(entries) THEN st
    ELSE With(inspectNode(h, entries[i], st, depth + 1),
              LAMBDA st1 : inspectEntries(h, entries, i + 1, st1, depth))

\* The scan of getDuplicateReferences (lines 878-881).
scanDuplicates(h, object) ==
    inspectNode(h, object, [objects |-> <<>>, duplicateObjects |-> <<>>,
                            overflow |-> FALSE], 0)

(***************************************************************************)
(* Structure serializer.  this = [c, heap, duplicates] is the DumperState  *)
(* and the caller's heap; mut = [used, log] is threaded through the calls. *)
(***************************************************************************)
NoTag == "null"
WrapperKey == <<107>>
LongKey == 1024

\* No type of the schema has a predicate that accepts a string, a plain
\* object, an array or a function: both probes return null.
detectType(this, object, explicit) == NoTag

\* a < b in UTF-16 code unit order (the default of Array.prototype.sort).
RECURSIVE LexLess(_, _)
LexLess(a, b) ==
    IF b = <<>> THEN FALSE
    ELSE IF a = <<>> THEN TRUE
    ELSE IF Head(a) # Head(b) THEN Head(a) < Head(b)
    ELSE LexLess(Tail(a), Tail(b))

\* The comparator a caller passes as sortKeys: descending order.
callerCompare(a, b) == LexLess(b, a)

\* Whether key a sorts before key b: by the default order of
\* Array.prototype.sort, or by the caller's comparator.
sortsBefore(custom, a, b) == IF custom THEN callerCompare(a, b) ELSE LexLess(a, b)

\* keys.sort() / keys.sort(compare): each key is inserted into the sorted rest.
RECURSIVE SortBy(_, _)
SortBy(keys, custom) ==
    IF keys = <<>> THEN <<>>
    ELSE LET rest == SortBy(Tail(keys), custom)
             n == Cardinality({i \in 1..Len(rest) : sortsBefore(custom, rest[i], Head(keys))})
         IN  SubSeq(rest, 1, n) \o <<Head(keys)>> \o SubSeq(rest, n + 1, Len(rest))

\* The key list stringifyBlockMapping walks (lines 682-695); the throw of
\* line 694 is sortKeysThrows.
sortedKeyList(c, keys) ==
    IF c.sortKeys = "true" THEN SortBy(keys, FALSE)
    ELSE IF c.sortKeys = "function" THEN SortBy(keys, TRUE)
    ELSE keys

sortKeysThrows(c) == c.sortKeys = "truthy"

\* The configuration error of line 694.
InvalidSortKeys == "TypeError: sortKeys must be a boolean or a function"

\* object[objectKey]
valueOf(object, key) == object.items[IndexOf(object.keys, key) + 1]

RECURSIVE stringifyNode(_, _, _, _, _, _)
RECURSIVE flowSequenceLoop(_, _, _, _, _, _, _)
RECURSIVE blockSequenceLoop(_, _, _, _, _, _, _, _)
RECURSIVE flowMappingLoop(_, _, _, _, _, _, _, _)
RECURSIVE blockMappingLoop(_, _, _, _, _, _, _, _, _, _)

NodeOpts(block, compact, isKey) == [block |-> block, compact |-> compact, isKey |-> isKey]

\* The loop of stringifyFlowSequence (lines 582-592).
flowSequenceLoop(this, mut, depth, object, level, index, result) ==
    IF index >= Len(object) THEN Ok(result, mut)
    ELSE With(stringifyNode(this, mut, depth + 1, level, object[index + 1],
                            NodeOpts(FALSE, FALSE, FALSE)),
              LAMBDA r :
                IF r.st = "throw" THEN r
                ELSE IF r.st = "null"
                THEN flowSequenceLoop(this, r.mut, depth, object, level, index + 1, result)
                ELSE flowSequenceLoop(this, r.mut, depth, object, level, index + 1,
                       result \o
                       (IF index # 0
                        THEN <<COMMA>> \o
                             (IF ~this.c.condenseFlow THEN <<SPACE>> ELSE <<>>)
                        ELSE <<>>) \o
                       r.s))

stringifyFlowSequence(this, mut, depth, object, level) ==
    With(flowSequenceLoop(this, mut, depth, object, level, 0, <<>>),
         LAMBDA r :
           IF r.st = "throw" THEN r
           ELSE Ok(<<LEFT_SQUARE_BRACKET>> \o r.s \o <<RIGHT_SQUARE_BRACKET>>, r.mut))

\* The loop of stringifyBlockSequence (lines 604-624).
blockSequenceLoop(this, mut, depth, object, level, compact, index, result) ==
    IF index >= Len(object) THEN Ok(result, mut)
    ELSE With(stringifyNode(this, mut, depth + 1, level + 1, object[index + 1],
                            NodeOpts(TRUE, TRUE, FALSE)),
              LAMBDA r :
                IF r.st = "throw" THEN r
                ELSE IF r.st = "null"
                THEN blockSequenceLoop(this, r.mut, depth, object, level, compact,
                                       index + 1, result)
                ELSE blockSequenceLoop(this, r.mut, depth, object, level, compact,
                       index + 1,
                       result \o
                       (IF ~compact \/ index # 0
                        THEN generateNextLine(this.c.indent, level) ELSE <<>>) \o
                       (IF r.s # <<>> /\ At(r.s, 0) = LINE_FEED
                        THEN <<MINUS>> ELSE <<MINUS, SPACE>>) \o
                       r.s))

stringifyBlockSequence(this, mut, depth, object, level, compact) ==
    With(blockSequenceLoop(this, mut, depth, object, level, compact, 0, <<>>),
         LAMBDA r :
           IF r.st = "throw" THEN r
           ELSE Ok(IF r.s # <<>> THEN r.s
                   ELSE <<LEFT_SQUARE_BRACKET, RIGHT_SQUARE_BRACKET>>, r.mut))

\* The loop of stringifyFlowMapping (lines 633-671).
flowMappingLoop(this, mut, depth, object, level, objectKeyList, index, result) ==
    IF index >= Len(objectKeyList) THEN Ok(result, mut)
    ELSE
    LET objectKey == objectKeyList[index + 1]
        quote == IF this.c.condenseFlow THEN <<DOUBLE_QUOTE>> ELSE <<>>
        pairBuffer0 == quote \o (IF index # 0 THEN <<COMMA, SPACE>> ELSE <<>>)
        objectValue == valueOf(object, objectKey)
    IN  With(stringifyNode(this, mut, depth + 1, level, Str(objectKey),
                           NodeOpts(FALSE, FALSE, FALSE)),
             LAMBDA k :
               IF k.st = "throw" THEN k
               ELSE IF k.st = "null"
               THEN flowMappingLoop(this, k.mut, depth, object, level, objectKeyList,
                                    index + 1, result)
               ELSE
               LET pairBuffer1 == pairBuffer0 \o
                       (IF Len(k.s) > LongKey THEN <<QUESTION, SPACE>> ELSE <<>>) \o
                       k.s \o quote \o <<COLON>> \o
                       (IF this.c.condenseFlow THEN <<>> ELSE <<SPACE>>)
               IN  With(stringifyNode(this, k.mut, depth + 1, level, objectValue,
                                      NodeOpts(FALSE, FALSE, FALSE)),
                        LAMBDA v :
                          IF v.st = "throw" THEN v
                          ELSE IF v.st = "null"
                          THEN flowMappingLoop(this, v.mut, depth, object, level,
                                               objectKeyList, index + 1, result)
                          ELSE flowMappingLoop(this, v.mut, depth, object, level,
                                               objectKeyList, index + 1,
                                               result \o pairBuffer1 \o v.s)))

stringifyFlowMapping(this, mut, depth, object, level) ==
    With(flowMappingLoop(this, mut, depth, object, level, object.keys, 0, <<>>),
         LAMBDA r :
           IF r.st = "throw" THEN r
           ELSE Ok(<<LEFT_CURLY_BRACKET>> \o r.s \o <<RIGHT_CURLY_BRACKET>>, r.mut))

\* The loop of stringifyBlockMapping (lines 697-753).
blockMappingLoop(this, mut, depth, object, tag, level, compact, objectKeyList, index, result) ==
    IF index >= Len(objectKeyList) THEN Ok(result, mut)
    ELSE
    LET objectKey == objectKeyList[index + 1]
        pairBuffer0 == IF ~compact \/ index # 0
                       THEN generateNextLine(this.c.indent, level) ELSE <<>>
        objectValue == valueOf(object, objectKey)
    IN  With(stringifyNode(this, mut, depth + 1, level + 1, Str(objectKey),
                           NodeOpts(TRUE, TRUE, TRUE)),
             LAMBDA k :
               IF k.st = "throw" THEN k
               ELSE IF k.st = "null"
               THEN blockMappingLoop(this, k.mut, depth, object, tag, level, compact,
                                     objectKeyList, index + 1, result)
               ELSE
               LET explicitPair == (tag # NoTag /\ tag # "?") \/ Len(k.s) > LongKey
                   pairBuffer1 == pairBuffer0 \o
                       (IF explicitPair
                        THEN (IF k.s # <<>> /\ At(k.s, 0) = LINE_FEED
                              THEN <<QUESTION>> ELSE <<QUESTION, SPACE>>)
                        ELSE <<>>) \o
                       k.s \o
                       (IF explicitPair THEN generateNextLine(this.c.indent, level)
                        ELSE <<>>)
               IN  With(stringifyNode(this, k.mut, depth + 1, level + 1, objectValue,
                                      NodeOpts(TRUE, explicitPair, FALSE)),
                        LAMBDA v :
                          IF v.st = "throw" THEN v
                          ELSE IF v.st = "null"
                          THEN blockMappingLoop(this, v.mut, depth, object, tag, level,
                                                compact, objectKeyList, index + 1, result)
                          ELSE blockMappingLoop(this, v.mut, depth, object, tag, level,
                                                compact, objectKeyList, index + 1,
                                                result \o pairBuffer1 \o
                                                (IF v.s # <<>> /\ At(v.s, 0) = LINE_FEED
                                                 THEN <<COLON>> ELSE <<COLON, SPACE>>) \o
                                                v.s)))

stringifyBlockMapping(this, mut, depth, object, tag, level, compact) ==
    IF sortKeysThrows(this.c)
    THEN Throw(InvalidSortKeys, mut)
    ELSE With(blockMappingLoop(this, mut, depth, object, tag, level, compact,
                               sortedKeyList(this.c, object.keys), 0, <<>>),
              LAMBDA r :
                IF r.st = "throw" THEN r
                ELSE Ok(IF r.s # <<>> THEN r.s
                        ELSE <<LEFT_CURLY_BRACKET, RIGHT_CURLY_BRACKET>>, r.mut))

\* "&ref_" / "*ref_" followed by the index.
anchorText(duplicateIndex) == <<AMPERSAND, 114, 101, 102, 95>> \o Decimal(duplicateIndex)
aliasText(duplicateIndex) == <<ASTERISK, 114, 101, 102, 95>> \o Decimal(duplicateIndex)

\* block as stringifyNode resolves it (lines 803-805).
resolveBlock(c, level, block) == block /\ (c.flowLevel < 0 \/ c.flowLevel > level)

\* The level an array is rendered at (line 844).
arrayLevelOf(c, level) == IF ~c.arrayIndent /\ level > 0 THEN level - 1 ELSE level

\* Mutant of unsupportedKind: the value is skipped whatever skipInvalid says.
unsupportedKind_alwaysSkips(c, mut) == Null(mut)

\* The last branch of stringifyNode (lines 860-867): null under skipInvalid,
\* else the unsupported-value error.
unsupportedKind(c, mut) ==
    IF c.skipInvalid THEN Null(mut)
    ELSE Throw(Unacceptable, mut)

\* Mutant of markUsed: the first occurrence is never recorded.
markUsed_never(used, object, duplicate) == used

\* if (objectOrArray && duplicate) this.usedDuplicates.add(object)
markUsed(used, object, duplicate) ==
    IF isObject(object) /\ duplicate THEN used \cup {object.id} ELSE used

\* Serializes object; depth counts the nested stringifyNode calls, and a call
\* beyond MaxStack exhausts the call stack (RangeError).
stringifyNode(this, mut, depth, level, object, opts) ==
    IF depth > MaxStack THEN Throw(StackOverflow, mut)
    ELSE
    LET c == this.c
        tag == IF detectType(this, object, FALSE) # NoTag
               THEN detectType(this, object, FALSE) ELSE detectType(this, object, TRUE)
        block == resolveBlock(c, level, opts.block)
        objectOrArray == isObject(object)
        duplicateIndex == IF objectOrArray THEN IndexOf(this.duplicates, object.id) ELSE -1
        duplicate == duplicateIndex # -1
        compact == IF (tag # NoTag /\ tag # "?") \/ duplicate \/ (c.indent # 2 /\ level > 0)
                   THEN FALSE ELSE opts.compact
    IN  IF duplicate /\ object.id \in mut.used
        THEN Ok(aliasText(duplicateIndex), mut)
        ELSE
        LET o == IF objectOrArray THEN this.heap[object.id] ELSE Arr(<<>>)
            asBlock == block /\ Len(o.items) # 0
            arrayLevel == arrayLevelOf(c, level)
        IN  With([used |-> markUsed(mut.used, object, duplicate),
                  log |-> IF objectOrArray
                          THEN Append(mut.log,
                                      [id |-> object.id, depth |-> depth,
                                       level |-> level, asked |-> opts.block,
                                       block |-> asBlock])
                          ELSE mut.log],
                 LAMBDA mut1 :
                   With(IF objectOrArray /\ o.kind = "object"
                        THEN (IF asBlock
                              THEN stringifyBlockMapping(this, mut1, depth, o, tag, level,
                                                         compact)
                              ELSE stringifyFlowMapping(this, mut1, depth, o, level))
                        ELSE IF objectOrArray
                        THEN (IF asBlock
                              THEN stringifyBlockSequence(this, mut1, depth, o.items,
                                                          arrayLevel, compact)
                              ELSE stringifyFlowSequence(this, mut1, depth, o.items,
                                                         arrayLevel))
                        ELSE IF object.k = "string"
                        THEN Ok(IF tag # "?"
                                THEN stringifyScalar(c, object.s, level, opts.isKey)
                                ELSE object.s, mut1)
                        ELSE unsupportedKind(c, mut1),
                        LAMBDA r :
                          IF r.st # "ok" THEN r
                          ELSE IF objectOrArray /\ duplicate
                          THEN Ok(anchorText(duplicateIndex) \o
                                  (IF asBlock THEN <<>> ELSE <<SPACE>>) \o r.s, r.mut)
                          ELSE r))

(***************************************************************************)
(* stringify and getDuplicateReferences.                                   *)
(***************************************************************************)
NoScan == [objects |-> <<>>, duplicateObjects |-> <<>>, overflow |-> FALSE]
NotReturned == [st |-> "none", s |-> <<>>, err |-> "", log |-> <<>>]

\* this.duplicates after getDuplicateReferences: every duplicate is pushed.
getDuplicateReferences_discoveryOrder(dups, found) == dups \o SelectSeq(found.objects, LAMBDA o : IndexOf(found.duplicateObjects, o) # -1)
getDuplicateReferences(dups, found) == dups \o found.duplicateObjects

\* One stringify(object) call on a DumperState whose duplicates and
\* usedDuplicates are dups and used: the pre-scan, the render pass, and the
\* value returned or the exception thrown.
stringify(c, h, dups, used, object) ==
    With(IF c.useAnchors THEN scanDuplicates(h, object) ELSE NoScan,
         LAMBDA found :
           IF found.overflow
           THEN [scan |-> found, duplicates |-> dups, used |-> used,
                 returned |-> [st |-> "throw", s |-> <<>>, log |-> <<>>,
                               err |-> StackOverflow]]
           ELSE
           LET dups1 == IF c.useAnchors THEN getDuplicateReferences(dups, found) ELSE dups
               used1 == IF c.useAnchors THEN {} ELSE used
           IN  With(stringifyNode([c |-> c, heap |-> h, duplicates |-> dups1],
                                  [used |-> used1, log |-> <<>>], 0, 0, object,
                                  NodeOpts(TRUE, TRUE, FALSE)),
                    LAMBDA r :
                      [scan |-> found, duplicates |-> dups1, used |-> r.mut.used,
                       returned |-> [st |-> IF r.st = "throw" THEN "throw" ELSE "ok",
                                     s |-> IF r.st = "ok" THEN r.s \o <<LINE_FEED>>
                                           ELSE <<>>,
                                     err |-> r.err, log |-> r.mut.log]]))

(***************************************************************************)
(* The inputs of the model.                                                *)
(***************************************************************************)
Objs == {1, 2, 3}

\* Sequences over S of length at most n.
SeqsUpTo(S, n) == UNION {[1..k -> S] : k \in 0..n}

\* The string "a": the leaf of the trees.
LeafText == <<97>>

\* The i-th key a plain object of the model was given: "b", "a", "d", "c", ...
\* (insertion order is not sorted order).
KeyAt(i) == IF i % 2 = 1 THEN <<LeafText[1] + i>> ELSE <<LeafText[1] + i - 2>>
KeysOf(n) == [i \in 1..n |-> KeyAt(i)]

\* An array or a plain object holding items.
Container(kind, items) ==
    IF kind = "array" THEN Arr(items) ELSE Obj(KeysOf(Len(items)), items)
Kinds == {"array", "object"}

\* An array [value] or a plain object {k: value}.
Wrapper(kind, value) ==
    IF kind = "object" THEN Obj(<<WrapperKey>>, <<value>>) ELSE Arr(<<value>>)

DefaultOptions ==
    [indent |-> 2, arrayIndent |-> TRUE, skipInvalid |-> FALSE, flowLevel |-> -1,
     sortKeys |-> "false", lineWidth |-> 80, useAnchors |-> TRUE,
     compatMode |-> TRUE, condenseFlow |-> FALSE]

\* Object graphs with sharing and cycles: two objects that hold "a" or
\* references to each other and to themselves.
GraphItems == SeqsUpTo({Str(LeafText), Ref(1), Ref(2)}, 2)
InitGraph ==
    /\ \E k1 \in Kinds, k2 \in Kinds, i1 \in GraphItems, i2 \in GraphItems :
          heap = [o \in Objs |-> IF o = 1 THEN Container(k1, i1)
                                 ELSE IF o = 2 THEN Container(k2, i2)
                                 ELSE Arr(<<>>)]
    /\ data = Ref(1)
    /\ \E ua \in BOOLEAN, fl \in {-1, 0} :
          cfg = [DefaultOptions EXCEPT !.useAnchors = ua, !.flowLevel = fl]

\* A sequence [a, b] or [a, b, b, a], a and b each one of two objects that
\* may be equal in content; the second object is empty or holds the third,
\* which is empty.
InitShared ==
    /\ \E a \in {2, 3}, b \in {2, 3}, twice \in BOOLEAN, k2 \in Kinds, i2 \in {<<>>, <<Ref(3)>>} :
          heap = [o \in Objs |-> IF o = 1
                                 THEN Arr(IF twice THEN <<Ref(a), Ref(b), Ref(b), Ref(a)>>
                                          ELSE <<Ref(a), Ref(b)>>)
                                 ELSE IF o = 2 THEN Container(k2, i2)
                                 ELSE Arr(<<>>)]
    /\ data = Ref(1)
    /\ \E ua \in BOOLEAN, fl \in {-1, 0} :
          cfg = [DefaultOptions EXCEPT !.useAnchors = ua, !.flowLevel = fl]

\* A container of strings and unsupported values, at the root, as the value
\* of a mapping pair or as an element of a sequence.
SkipItems == SeqsUpTo({Str(LeafText), Func}, MaxItems)
InitSkip ==
    /\ \E wrap \in {"none", "array", "object"}, k2 \in Kinds, i2 \in SkipItems :
          /\ heap = [o \in Objs |-> IF o = 1 THEN Wrapper(wrap, Ref(2))
                                    ELSE IF o = 2 THEN Container(k2, i2)
                                    ELSE Arr(<<>>)]
          /\ data = IF wrap = "none" THEN Ref(2) ELSE Ref(1)
    /\ \E si \in BOOLEAN, fl \in {-1, 0, 1}, cf \in BOOLEAN, sk \in {"false", "true"} :
          cfg = [DefaultOptions EXCEPT !.skipInvalid = si, !.flowLevel = fl,
                                       !.condenseFlow = cf, !.sortKeys = sk]

\* What a caller may pass as sortKeys: false, a comparator, and values that
\* are neither a boolean nor a function, truthy (1, "yes") or falsy (0, "", null).
SortKeysValues == {"false", "function", "truthy", "falsy"}

\* Three containers nested in each other, the innermost holding "a".
InitLayout ==
    /\ \E k1 \in Kinds, k2 \in Kinds, k3 \in Kinds :
          heap = [o \in Objs |-> IF o = 1 THEN Container(k1, <<Ref(2)>>)
                                 ELSE IF o = 2 THEN Container(k2, <<Ref(3)>>)
                                 ELSE Container(k3, <<Str(LeafText)>>)]
    /\ data = Ref(1)
    /\ \E fl \in {-1, 0, 1, 2}, ai \in BOOLEAN, ind \in {2, 3}, sk \in SortKeysValues :
          cfg = [DefaultOptions EXCEPT !.flowLevel = fl, !.arrayIndent = ai,
                                       !.indent = ind, !.sortKeys = sk]

\* The two-line string "a\na", and a container holding it as its element,
\* as its key or as the value of its pair; the container is the root, the
\* value of a mapping pair or an element of a sequence.
TwoLines == LeafText \o <<LINE_FEED>> \o LeafText
LineTexts == {LeafText, TwoLines}
InitLines ==
    /\ \E wrap \in {"none", "array", "object"}, k2 \in Kinds, key \in LineTexts, value \in LineTexts :
          /\ k2 = "array" => key = LeafText
          /\ TwoLines \in {key, value}
          /\ heap = [o \in Objs |-> IF o = 1 THEN Wrapper(wrap, Ref(2))
                                    ELSE IF o = 2 THEN (IF k2 = "array" THEN Arr(<<Str(value)>>)
                                                        ELSE Obj(<<key>>, <<Str(value)>>))
                                    ELSE Arr(<<>>)]
          /\ data = IF wrap = "none" THEN Ref(2) ELSE Ref(1)
    /\ \E fl \in {-1, 0, 1}, ai \in BOOLEAN :
          cfg = [DefaultOptions EXCEPT !.flowLevel = fl, !.arrayIndent = ai]

\* A string or an unsupported value as the root.
RootTexts == SeqsUpTo({LeafText[1], LINE_FEED}, MaxLen)
InitRoot ==
    /\ heap = [o \in Objs |-> Arr(<<>>)]
    /\ data \in {Str(t) : t \in RootTexts} \cup {Func}
    /\ \E si \in BOOLEAN, lw \in {-1, 80} :
          cfg = [DefaultOptions EXCEPT !.skipInvalid = si, !.lineWidth = lw]

NoScalar == [st |-> "none", s |-> <<>>]
NoEntry == [size |-> 0, entrySize |-> 0, read |-> 0, consumed |-> FALSE]
NoReader == [pos |-> 0, len |-> 0]
NotRead == [st |-> "none", n |-> 0]
NoHeader == [st |-> "none", at |-> 0]

NoFold ==
    /\ fLine = <<>>
    /\ fWidth = 0
    /\ fResult = NoScalar

NoTar ==
    /\ entry = NoEntry
    /\ reader = NoReader
    /\ delivered = <<>>
    /\ lastRead = NotRead
    /\ seekable = FALSE
    /\ headerRead = NoHeader

Init ==
    /\ InitGraph \/ InitShared \/ InitSkip \/ InitLayout \/ InitLines \/ InitRoot
    /\ calls = 0
    /\ pc = "ready"
    /\ duplicates = <<>>
    /\ usedDuplicates = {}
    /\ scan = NoScan
    /\ returned = NotReturned
    /\ sString = <<>>
    /\ sLevel = 0
    /\ sIsKey = FALSE
    /\ sResult = NoScalar
    /\ NoTar
    /\ NoFold

(***************************************************************************)
(* Actions.                                                                *)
(***************************************************************************)
\* state.stringify(data)
Stringify ==
    /\ pc = "ready"
    /\ \E r \in {stringify(cfg, heap, duplicates, usedDuplicates, data)} :
           /\ scan' = r.scan
           /\ duplicates' = r.duplicates
           /\ usedDuplicates' = r.used
           /\ returned' = r.returned
    /\ calls' = calls + 1
    /\ pc' = "done"
    /\ UNCHANGED <<cfg, heap, data, scalarVars, tarVars, foldVars>>

\* The caller passes another of its objects to the same DumperState.
Reuse(d) ==
    /\ pc = "done"
    /\ calls < MaxCalls
    /\ data' = d
    /\ pc' = "ready"
    /\ returned' = NotReturned
    /\ scan' = NoScan
    /\ UNCHANGED <<cfg, heap, calls, duplicates, usedDuplicates, scalarVars, tarVars, foldVars>>

Next ==
    \/ Stringify
    \/ \E d \in {Ref(1), Ref(2)} : Reuse(d)

Spec == Init /\ [][Next]_vars

(***************************************************************************)
(* The scalar encoder on its own: stringifyScalar applied to a string, a   *)
(* level and isKey drawn from bounded sets.                                *)
(***************************************************************************)
Alphabet == {LOWER_N, SPACE, LINE_FEED, SINGLE_QUOTE, TILDE, BELL}

InitScalar ==
    /\ sString \in SeqsUpTo(Alphabet, MaxLen)
    /\ sLevel \in 0..3
    /\ sIsKey \in BOOLEAN
    /\ sResult = NoScalar
    /\ \E lw \in {-1, 1, 45}, cm \in BOOLEAN, ind \in {2, 10}, fl \in {-1, 1} :
          cfg = [DefaultOptions EXCEPT !.lineWidth = lw, !.compatMode = cm,
                                       !.indent = ind, !.flowLevel = fl]
    /\ heap = [o \in Objs |-> Arr(<<>>)]
    /\ data = Str(<<>>)
    /\ calls = 0
    /\ pc = "scalar"
    /\ duplicates = <<>>
    /\ usedDuplicates = {}
    /\ scan = NoScan
    /\ returned = NotReturned
    /\ NoTar
    /\ NoFold

\* state.stringifyScalar(string, level, isKey)
StringifyScalar ==
    /\ pc = "scalar"
    /\ sResult.st = "none"
    /\ sResult' = [st |-> "ok", s |-> stringifyScalar(cfg, sString, sLevel, sIsKey)]
    /\ UNCHANGED <<cfg, treeVars, sString, sLevel, sIsKey, tarVars, foldVars>>

NextScalar == StringifyScalar

SpecScalar == InitScalar /\ [][NextScalar]_vars

(***************************************************************************)
(* foldLine on its own: applied to a line without line feeds (foldString   *)
(* passes the text between two line feeds) and a positive width.           *)
(***************************************************************************)
LineAlphabet == {LOWER_N, SPACE}

InitFold ==
    /\ fLine \in SeqsUpTo(LineAlphabet, MaxLineLen)
    /\ fWidth \in 1..MaxWidth
    /\ fResult = NoScalar
    /\ cfg = DefaultOptions
    /\ heap = [o \in Objs |-> Arr(<<>>)]
    /\ data = Str(<<>>)
    /\ calls = 0
    /\ pc = "fold"
    /\ duplicates = <<>>
    /\ usedDuplicates = {}
    /\ scan = NoScan
    /\ returned = NotReturned
    /\ sString = <<>>
    /\ sLevel = 0
    /\ sIsKey = FALSE
    /\ sResult = NoScalar
    /\ NoTar

\* foldLine(line, width)
FoldLine ==
    /\ pc = "fold"
    /\ fResult.st = "none"
    /\ fResult' = [st |-> "ok", s |-> foldLine(fLine, fWidth)]
    /\ UNCHANGED <<cfg, treeVars, scalarVars, tarVars, fLine, fWidth>>

NextFold == FoldLine

SpecFold == InitFold /\ [][NextFold]_vars

(***************************************************************************)
(* The tar reader (lines 902-1466): one TarEntry and the archive reader it *)
(* takes its body from.  Bytes are naturals 0..255.                        *)
(***************************************************************************)
HEADER_LENGTH == 512

Min(a, b) == IF a < b THEN a ELSE b
CeilDiv(a, b) == (a + b - 1) \div b

\* Content byte number i (0-based) of the file: never zero, so that a
\* content byte cannot be taken for padding.
ContentByte(i) == (i % 255) + 1

\* The byte at offset i of the entry's body in the archive: the content,
\* then zeros up to the block boundary and the end-of-archive blocks.
ArchiveByte(size, i) == IF i < size THEN ContentByte(i) ELSE 0

\* new TarEntry(meta, reader)
newTarEntry(fileSize) == [size |-> fileSize, entrySize |-> CeilDiv(fileSize, HEADER_LENGTH) * HEADER_LENGTH, read |-> 0, consumed |-> FALSE]

\* readBlock(reader, p) of _common.ts: fills p, null at the end of data,
\* PartialReadError when the data ends inside p.
readBlock(rd, length) == IF length = 0 THEN [st |-> "ok", n |-> 0, reader |-> rd] ELSE IF rd.len - rd.pos = 0 THEN [st |-> "null", n |-> 0, reader |-> rd] ELSE IF rd.len - rd.pos < length THEN [st |-> "throw", n |-> 0, reader |-> [rd EXCEPT !.pos = rd.len]] ELSE [st |-> "ok", n |-> length, reader |-> [rd EXCEPT !.pos = rd.pos + length]]

\* "Remove zero filled": how many bytes of the block go to the caller.
deliverCount_all(bytesLeft, n) == n
deliverCount(bytesLeft, n) == IF bytesLeft < n THEN bytesLeft ELSE n

\* TarEntry.read(p) with p.length = length.  bytes is what p.set copied to
\* the front of p, result what the call returned.
TarEntryRead(e, rd, length) ==
    LET entryBytesLeft == e.entrySize - e.read
        bufSize == Min(length, entryBytesLeft)
        rb == readBlock(rd, bufSize)
        bytesLeft == e.size - e.read
        offset == deliverCount(bytesLeft, rb.n)
    IN  IF entryBytesLeft <= 0
        THEN [entry |-> [e EXCEPT !.consumed = TRUE], reader |-> rd, bytes |-> <<>>, result |-> [st |-> "null", n |-> 0]]
        ELSE IF rb.st = "throw"
        THEN [entry |-> e, reader |-> rb.reader, bytes |-> <<>>, result |-> [st |-> "PartialReadError", n |-> 0]]
        ELSE IF rb.st = "null"
        THEN [entry |-> [e EXCEPT !.consumed = TRUE], reader |-> rb.reader, bytes |-> <<>>, result |-> [st |-> "null", n |-> 0]]
        ELSE IF bytesLeft <= 0
        THEN [entry |-> [e EXCEPT !.read = e.read + rb.n], reader |-> rb.reader, bytes |-> <<>>, result |-> [st |-> "null", n |-> 0]]
        ELSE [entry |-> [e EXCEPT !.read = e.read + rb.n], reader |-> rb.reader,
              bytes |-> [k \in 1..offset |-> ArchiveByte(e.size, rd.pos + k - 1)],
              result |-> [st |-> "ok", n |-> IF offset < 0 THEN rb.n + offset ELSE offset]]

FileSizes == {0, 1, HEADER_LENGTH - 1, HEADER_LENGTH, HEADER_LENGTH + 1, MaxFileSize}
BufferSizes == {1, 100, HEADER_LENGTH, MaxBuffer}

InitTar ==
    /\ \E fileSize \in FileSizes :
          /\ entry = newTarEntry(fileSize)
          /\ reader = [pos |-> 0, len |-> entry.entrySize + 2 * HEADER_LENGTH]
    /\ delivered = <<>>
    /\ lastRead = NotRead
    /\ seekable \in BOOLEAN
    /\ headerRead = NoHeader
    /\ cfg = DefaultOptions
    /\ heap = [o \in Objs |-> Arr(<<>>)]
    /\ data = Str(<<>>)
    /\ calls = 0
    /\ pc = "tar"
    /\ duplicates = <<>>
    /\ usedDuplicates = {}
    /\ scan = NoScan
    /\ returned = NotReturned
    /\ sString = <<>>
    /\ sLevel = 0
    /\ sIsKey = FALSE
    /\ sResult = NoScalar
    /\ NoFold

\* await entry.read(p), p a buffer of the given length
Read(length) ==
    /\ pc = "tar"
    /\ \E r \in {TarEntryRead(entry, reader, length)} :
          /\ entry' = r.entry
          /\ reader' = r.reader
          /\ delivered' = delivered \o r.bytes
          /\ lastRead' = r.result
    /\ UNCHANGED <<cfg, treeVars, scalarVars, foldVars, seekable, headerRead>>

NextTar == \E length \in BufferSizes : Read(length)

SpecTar == InitTar /\ [][NextTar]_vars

(***************************************************************************)
(* Untar: the entry is the one the last extract() returned; the caller     *)
(* reads it, discards it, and calls extract() again.                       *)
(***************************************************************************)
\* The chunk readAll of @std/io/read-all hands to reader.read.
DEFAULT_CHUNK_SIZE == 16640

\* readAll(entry): reads chunks until read returns null.
RECURSIVE readAll(_, _)
readAll(e, rd) ==
    With(TarEntryRead(e, rd, DEFAULT_CHUNK_SIZE),
         LAMBDA r : IF r.result.st = "ok" THEN readAll(r.entry, r.reader)
                    ELSE [entry |-> r.entry, reader |-> r.reader])

\* Mutant of TarEntry.discard: marks the entry consumed and skips nothing.
TarEntryDiscard_noSkip(e, rd, seek) == [entry |-> [e EXCEPT !.consumed = TRUE], reader |-> rd]

\* TarEntry.discard(); seek tells whether the reader has a seek method.
TarEntryDiscard(e, rd, seek) ==
    IF e.consumed THEN [entry |-> e, reader |-> rd]
    ELSE IF seek
    THEN [entry |-> [e EXCEPT !.consumed = TRUE, !.read = e.entrySize],
          reader |-> [rd EXCEPT !.pos = rd.pos + (e.entrySize - e.read)]]
    ELSE readAll([e EXCEPT !.consumed = TRUE], rd)

\* The header block getAndValidateHeader reads at offset at of the archive
\* (counted from the start of the entry's body) is the end-of-archive
\* block: 512 zeros, whose checksum is the initial checksum.
EndOfArchiveAt(size, at) == \A i \in at..(at + HEADER_LENGTH - 1) : ArchiveByte(size, i) = 0

\* Untar.extract() while the entry is this.#entry: discards the entry when
\* it is not consumed, then reads the next header block.
UntarExtract(e, rd, seek) ==
    With(IF ~e.consumed THEN TarEntryDiscard(e, rd, seek) ELSE [entry |-> e, reader |-> rd],
         LAMBDA d :
           With(readBlock(d.reader, HEADER_LENGTH),
                LAMBDA rb :
                  [entry |-> d.entry, reader |-> rb.reader,
                   header |-> [st |-> IF rb.st # "ok" THEN "PartialReadError"
                                      ELSE IF EndOfArchiveAt(e.size, d.reader.pos) THEN "null"
                                      ELSE "checksum error",
                               at |-> d.reader.pos]]))

\* await entry.discard()
Discard ==
    /\ pc = "tar"
    /\ headerRead.st = "none"
    /\ \E r \in {TarEntryDiscard(entry, reader, seekable)} :
          /\ entry' = r.entry
          /\ reader' = r.reader
    /\ UNCHANGED <<cfg, treeVars, scalarVars, foldVars, delivered, lastRead, seekable, headerRead>>

\* await untar.extract()
Extract ==
    /\ pc = "tar"
    /\ headerRead.st = "none"
    /\ \E r \in {UntarExtract(entry, reader, seekable)} :
          /\ entry' = r.entry
          /\ reader' = r.reader
          /\ headerRead' = r.header
    /\ UNCHANGED <<cfg, treeVars, scalarVars, foldVars, delivered, lastRead, seekable>>

\* The caller reads until extract() has been called again.
ReadEntry(length) == headerRead.st = "none" /\ Read(length)

NextUntar ==
    \/ \E length \in BufferSizes : ReadEntry(length)
    \/ Discard
    \/ Extract

SpecUntar == InitTar /\ [][NextUntar]_vars

(***************************************************************************)
(* The object graph, as the claims speak of it.                            *)
(***************************************************************************)
\* The objects an object holds directly.
Children(h, o) == {h[o].items[i].id : i \in {j \in 1..Len(h[o].items) : isObject(h[o].items[j])}}

\* The objects reachable from a set of objects by at most n containment steps.
RECURSIVE ReachN(_, _, _)
ReachN(h, S, n) ==
    IF n = 0 THEN S ELSE ReachN(h, S \cup UNION {Children(h, o) : o \in S}, n - 1)

\* The objects of the tree passed as value (the value itself included).
Reach(h, value) == IF isObject(value) THEN ReachN(h, {value.id}, Cardinality(Objs)) ELSE {}

\* The objects reachable from o by at least one containment step.
Below(h, o) == ReachN(h, Children(h, o), Cardinality(Objs))

\* The tree passed as value holds a containment cycle.
HasCycle(h, value) == \E o \in Reach(h, value) : o \in Below(h, o)

\* How often object d occurs in the tree passed as value: as the root, and as
\* an entry of each object of the tree.
Occurrences(h, value, d) ==
    (IF value = Ref(d) THEN 1 ELSE 0) +
    Cardinality({<<o, i>> \in Reach(h, value) \X (1..(MaxItems + 1)) :
                    i <= Len(h[o].items) /\ h[o].items[i] = Ref(d)})

\* The 0-based positions at which the token tok stands in text, not followed
\* by a further digit.
Positions(text, tok) ==
    {i \in 0..(Len(text) - Len(tok)) :
        /\ SubSeq(text, i + 1, i + Len(tok)) = tok
        /\ At(text, i + Len(tok)) \notin 48..57}

AnchorToken(n) == <<38, 114, 101, 102, 95>> \o Decimal(n)
AliasToken(n) == <<42, 114, 101, 102, 95>> \o Decimal(n)

Done == pc = "done"
Returned == pc = "done" /\ returned.st = "ok"

(***************************************************************************)
(* C1.  With useAnchors enabled, every node of the duplicate registry that *)
(* the render pass meets is emitted once with its anchor &ref_N and its    *)
(* content (at its first occurrence), and as the alias *ref_N with the     *)
(* same N at each of its other occurrences; every alias stands after the   *)
(* anchor in the output, also when the alias is inside the node's own      *)
(* content (a cycle).                                                      *)
(***************************************************************************)
C1_AnchorThenAliases ==
    (Returned /\ cfg.useAnchors) =>
        \A d \in Reach(heap, data) :
            IndexOf(duplicates, d) # -1 =>
                LET n == IndexOf(duplicates, d)
                    anchors == Positions(returned.s, AnchorToken(n))
                    aliases == Positions(returned.s, AliasToken(n))
                IN  /\ Cardinality(anchors) = 1
                    /\ Cardinality(aliases) = Occurrences(heap, data, d) - 1
                    /\ \A a \in anchors, b \in aliases : a < b
                    /\ Cardinality({i \in DOMAIN returned.log : returned.log[i].id = d}) = 1

\* A node that holds itself was serialized: its alias is inside its own content.
C1_Witness ==
    /\ Returned /\ cfg.useAnchors
    /\ \E d \in Reach(heap, data) :
          /\ d \in Children(heap, d)
          /\ IndexOf(duplicates, d) # -1
          /\ Positions(returned.s, AliasToken(IndexOf(duplicates, d))) # {}

(***************************************************************************)
(* C2.  Serializing an object graph that holds a cycle terminates: neither *)
(* the pre-scan nor the render pass exhausts the call stack, and a node of *)
(* each cycle (the node itself, when it holds itself) is in the duplicate  *)
(* set after the pre-scan.                                                 *)
(***************************************************************************)
CycleIsMarked ==
    \A o \in Reach(heap, data) :
        /\ o \in Children(heap, o) => IndexOf(scan.duplicateObjects, o) # -1
        /\ o \in Below(heap, o) =>
              \E n \in Below(heap, o) :
                  o \in Below(heap, n) /\ IndexOf(scan.duplicateObjects, n) # -1

Terminated == ~scan.overflow /\ returned.st # "none" /\ returned.err # StackOverflow

\* The claim as stated: for every configuration.
C2_Original == (Done /\ HasCycle(heap, data)) => (Terminated /\ CycleIsMarked)

\* The claim as amended: with useAnchors enabled.
C2_CycleTerminates ==
    (Done /\ HasCycle(heap, data) /\ cfg.useAnchors) => (Terminated /\ CycleIsMarked)

C2_Witness ==
    /\ Done /\ cfg.useAnchors /\ Terminated
    /\ \E o \in Reach(heap, data) : o \in Children(heap, o)
    /\ \E o \in Reach(heap, data) : o \notin Children(heap, o) /\ o \in Below(heap, o)

(***************************************************************************)
(* Reading the output back, as the claims speak of it.                     *)
(***************************************************************************)
\* text holds sub as a contiguous part.
Contains(text, sub) ==
    \E i \in 0..(Len(text) - Len(sub)) : SubSeq(text, i + 1, i + Len(sub)) = sub

\* A line of block output without its indentation and its "- " markers.
RECURSIVE StripLead(_)
StripLead(line) ==
    IF At(line, 0) = SPACE THEN StripLead(Tail(line))
    ELSE IF At(line, 0) = MINUS /\ At(line, 1) = SPACE THEN StripLead(Tail(Tail(line)))
    ELSE line

\* The line is a block mapping pair "<key>: a" with a one-character key.
IsPairLine(line) ==
    LET l == StripLead(line)
    IN  Len(l) = 4 /\ l[2] = COLON /\ l[3] = SPACE /\ l[4] = LeafText[1]

\* The keys of the block mapping pairs "<key>: a" of text, in output order.
RenderedKeys(text) ==
    LET pairs == SelectSeq(Split(text), IsPairLine)
    IN  [i \in 1..Len(pairs) |-> <<StripLead(pairs[i])[1]>>]

\* The positions of the entries of o that hold a supported value.
ValidAt(o) == {i \in 1..Len(o.items) : o.items[i] # Func}

\* The i-th (1-based) smallest element of a finite set of naturals.
RECURSIVE NthOf(_, _)
NthOf(S, i) ==
    LET m == CHOOSE x \in S : \A y \in S : x <= y
    IN  IF i = 1 THEN m ELSE NthOf(S \ {m}, i - 1)

\* The keys of a mapping in ascending order.
AscendingKeys(keys) ==
    [i \in 1..Len(keys) |->
        CHOOSE k \in {keys[j] : j \in 1..Len(keys)} :
            Cardinality({j \in 1..Len(keys) : LexLess(keys[j], k)}) = i - 1]

\* The keys of the valid pairs of mapping o in the pairs' original relative
\* order: the order of the mapping as it is walked (sorted first under sortKeys).
ValidKeysInOrder(o) ==
    LET valid == ValidAt(o)
        kept == [i \in 1..Cardinality(valid) |-> o.keys[NthOf(valid, i)]]
    IN  IF cfg.sortKeys = "true" THEN AscendingKeys(kept) ELSE kept

\* Object o without its entries that hold an unsupported value.
WithoutInvalid(o) ==
    LET valid == ValidAt(o)
        n == Cardinality(valid)
    IN  [kind |-> o.kind,
         keys |-> IF o.kind = "object" THEN [i \in 1..n |-> o.keys[NthOf(valid, i)]]
                  ELSE <<>>,
         items |-> [i \in 1..n |-> o.items[NthOf(valid, i)]]]

LogEntries == {returned.log[i] : i \in DOMAIN returned.log}

(***************************************************************************)
(* C3.  A block mapping of n pairs of which k hold an unsupported value:   *)
(* with skipInvalid the call returns and the output holds exactly the n-k  *)
(* valid pairs in their original relative order; without skipInvalid and   *)
(* with k >= 1 the call raises the unsupported-value error and returns no  *)
(* output.  (Stated of the mappings whose values are strings or           *)
(* unsupported values.)                                                    *)
(***************************************************************************)
C3_SkipInvalidBlockMapping ==
    Done =>
        \A e \in LogEntries :
            LET o == heap[e.id]
                k == Len(o.items) - Cardinality(ValidAt(o))
            IN  (/\ o.kind = "object" /\ e.block
                 /\ \A i \in 1..Len(o.items) : ~isObject(o.items[i])) =>
                    /\ cfg.skipInvalid =>
                          /\ returned.st = "ok"
                          /\ RenderedKeys(returned.s) = ValidKeysInOrder(o)
                    /\ (~cfg.skipInvalid /\ k >= 1) =>
                          /\ returned.st = "throw"
                          /\ returned.err = Unacceptable
                          /\ returned.s = <<>>

\* Three pairs, the second of them unsupported, were rendered as two pairs.
C3_Witness ==
    /\ Returned /\ cfg.skipInvalid
    /\ \E e \in LogEntries :
          /\ e.block /\ heap[e.id].kind = "object"
          /\ heap[e.id].items = <<Str(LeafText), Func, Str(LeafText)>>
          /\ Len(RenderedKeys(returned.s)) = 2

(***************************************************************************)
(* C4.  With skipInvalid, a single unsupported child of a block sequence,  *)
(* flow sequence, block mapping or flow mapping, at the first, a middle or *)
(* the last position, is left out and the output is that of the container  *)
(* without this child: siblings and separators are unaffected.             *)
(***************************************************************************)
C4_OmissionLeavesSiblings ==
    (/\ Returned /\ cfg.skipInvalid /\ duplicates = <<>>
     /\ 2 \in Reach(heap, data)
     /\ Len(heap[2].items) - Cardinality(ValidAt(heap[2])) = 1) =>
        returned.s =
            stringify(cfg, [heap EXCEPT ![2] = WithoutInvalid(heap[2])],
                      <<>>, {}, data).returned.s

(***************************************************************************)
(* C5.  A call that returns, returns either a non-empty string that ends   *)
(* in exactly one newline, or the empty string; the empty string exactly   *)
(* when the root value is unsupported and skipInvalid is set.              *)
(***************************************************************************)
RootInvalid == data = Func

EndsInNewline(text) == Len(text) >= 1 /\ text[Len(text)] = LINE_FEED
EndsInTwoNewlines(text) == Len(text) >= 2 /\ EndsInNewline(text) /\ text[Len(text) - 1] = LINE_FEED

\* The output is a root block scalar with the keep ("+") chomping indicator.
KeepChompedRoot ==
    /\ data.k = "string"
    /\ At(returned.s, 0) \in {VERTICAL_LINE, GREATER_THAN}
    /\ PLUS \in {At(returned.s, 1), At(returned.s, 2)}

\* The claim as stated.
C5_Original ==
    Returned =>
        /\ returned.s = <<>> <=> (RootInvalid /\ cfg.skipInvalid)
        /\ returned.s # <<>> =>
              (EndsInNewline(returned.s) /\ ~EndsInTwoNewlines(returned.s))

\* The claim as amended: a non-empty output ends in a newline, and in exactly
\* one unless it ends with a block scalar in keep chomping, whose kept
\* trailing newlines stand before it.
C5_EndsInNewline ==
    Returned =>
        /\ returned.s = <<>> <=> (RootInvalid /\ cfg.skipInvalid)
        /\ returned.s # <<>> =>
              /\ EndsInNewline(returned.s)
              /\ EndsInTwoNewlines(returned.s) => KeepChompedRoot

\* A root string with one trailing newline was written as a clipped block
\* scalar, and the output ends in exactly one newline.
C5_Witness ==
    /\ Returned
    /\ data = Str(LeafText \o <<LINE_FEED>>)
    /\ At(returned.s, 0) = VERTICAL_LINE
    /\ EndsInNewline(returned.s) /\ ~EndsInTwoNewlines(returned.s)

(***************************************************************************)
(* C6.  A non-empty string without line breaks whose characters are all    *)
(* plain-safe, whose first character is plain-safe-first, whose last       *)
(* character is not whitespace and which does not resolve to an implicit   *)
(* non-string type is emitted verbatim and unquoted, for every level,      *)
(* lineWidth and compatMode.                                               *)
(***************************************************************************)
PlainText(string) ==
    /\ Len(string) >= 1
    /\ \A i \in 1..Len(string) :
          string[i] # LINE_FEED /\ isPrintable(string[i]) /\ isPlainSafe(string[i])
    /\ isPlainSafeFirst(string[1])
    /\ ~isWhiteSpace(string[Len(string)])
    /\ ~implicitResolve(string)

ScalarDone == pc = "scalar" /\ sResult.st = "ok"

\* The claim as stated.
C6_Original == (ScalarDone /\ PlainText(sString)) => sResult.s = sString

\* The string fits the width that is tracked where block styles are allowed.
FitsWidth ==
    \/ singleLineOnly(cfg, sLevel, sIsKey)
    \/ cfg.lineWidth = -1
    \/ Len(sString) <= scalarLineWidth(cfg, sLevel)

\* The claim as amended: unless the string is a deprecated boolean literal
\* under compatMode, or is longer than the active width where block styles
\* are allowed.
C6_PlainVerbatim ==
    (/\ ScalarDone /\ PlainText(sString)
     /\ ~(cfg.compatMode /\ sString \in DEPRECATED_BOOLEANS_SYNTAX)
     /\ FitsWidth) => sResult.s = sString

\* A plain-safe string with an inner space and an inner quote was emitted
\* under a tracked width and under compatMode.
C6_Witness ==
    /\ ScalarDone
    /\ sString = <<LOWER_N, SINGLE_QUOTE, LOWER_N>>
    /\ cfg.compatMode /\ cfg.lineWidth # -1
    /\ sResult.s = sString

(***************************************************************************)
(* The reading rules of the five scalar styles (the reader of the same     *)
(* library, _loader_state.ts, which follows YAML 1.2).  A read yields      *)
(* [ok, s]: whether the text is a well-formed scalar, and the string read. *)
(***************************************************************************)
Good(s) == [ok |-> TRUE, s |-> s]
Bad == [ok |-> FALSE, s |-> <<>>]

\* Plain: taken verbatim, surrounding white space is not content, and a text
\* that resolves to an implicit type is not read as a string.
readPlainScalar(text) ==
    IF text = <<>> \/ isWhiteSpace(text[1]) \/ isWhiteSpace(text[Len(text)])
       \/ implicitResolve(text) \/ IndexOfFrom(text, LINE_FEED, 0) # -1
    THEN Bad ELSE Good(text)

\* Single-quoted: '' reads as one quote; a lone quote ends the scalar.
RECURSIVE readSingleFrom(_, _)
readSingleFrom(text, i) ==
    IF i >= Len(text) THEN Bad
    ELSE IF At(text, i) = SINGLE_QUOTE
    THEN (IF At(text, i + 1) = SINGLE_QUOTE
          THEN LET r == readSingleFrom(text, i + 2)
               IN  IF r.ok THEN Good(<<SINGLE_QUOTE>> \o r.s) ELSE Bad
          ELSE IF i = Len(text) - 1 THEN Good(<<>>) ELSE Bad)
    ELSE LET r == readSingleFrom(text, i + 1)
         IN  IF r.ok THEN Good(<<At(text, i)>> \o r.s) ELSE Bad

readSingleQuotedScalar(text) == readSingleFrom(text, 1)

\* The character an escape letter stands for, -1 if it is none.
simpleEscapeSequence(c) ==
    CASE c = 48 -> 0 [] c = 97 -> 7 [] c = 98 -> 8 [] c = 116 -> 9 [] c = TAB -> 9
      [] c = 110 -> 10 [] c = 118 -> 11 [] c = 102 -> 12 [] c = 114 -> 13
      [] c = 101 -> 27 [] c = SPACE -> 32 [] c = DOUBLE_QUOTE -> 34 [] c = 47 -> 47
      [] c = BACKSLASH -> 92 [] c = 78 -> 133 [] c = 95 -> 160 [] c = 76 -> 8232
      [] c = 80 -> 8233 [] OTHER -> -1

\* The number of hexadecimal digits an escape letter announces (x, u, U).
escapedHexLen(c) == CASE c = 120 -> 2 [] c = 117 -> 4 [] c = 85 -> 8 [] OTHER -> 0

fromHexCode(c) ==
    IF c \in 48..57 THEN c - 48
    ELSE IF c \in 65..70 THEN c - 55
    ELSE IF c \in 97..102 THEN c - 87
    ELSE -1

\* The value of a sequence of hexadecimal digits, -1 if one is none.
RECURSIVE HexValue(_)
HexValue(digits) ==
    IF digits = <<>> THEN 0
    ELSE LET hi == HexValue(SubSeq(digits, 1, Len(digits) - 1))
             lo == fromHexCode(digits[Len(digits)])
         IN  IF hi = -1 \/ lo = -1 THEN -1 ELSE hi * 16 + lo

\* The UTF-16 code units of a code point.
charFromCodepoint(c) ==
    IF c <= 65535 THEN <<c>>
    ELSE <<((c - 65536) \div 1024) + 55296, ((c - 65536) % 1024) + 56320>>

\* Double-quoted: escape sequences are decoded; an unescaped quote ends the
\* scalar.
RECURSIVE readDoubleFrom(_, _)
readDoubleFrom(text, i) ==
    IF i >= Len(text) THEN Bad
    ELSE IF At(text, i) = DOUBLE_QUOTE
    THEN (IF i = Len(text) - 1 THEN Good(<<>>) ELSE Bad)
    ELSE IF At(text, i) = BACKSLASH
    THEN LET e == At(text, i + 1)
             hexLen == escapedHexLen(e)
             code == IF hexLen > 0 /\ i + 2 + hexLen <= Len(text)
                     THEN HexValue(Slice(text, i + 2, i + 2 + hexLen))
                     ELSE simpleEscapeSequence(e)
             r == readDoubleFrom(text, i + 2 + hexLen)
         IN  IF code = -1 \/ ~r.ok THEN Bad ELSE Good(charFromCodepoint(code) \o r.s)
    ELSE LET r == readDoubleFrom(text, i + 1)
         IN  IF r.ok THEN Good(<<At(text, i)>> \o r.s) ELSE Bad

readDoubleQuotedScalar(text) == readDoubleFrom(text, 1)

\* The number of spaces a line starts with, counted up to limit.
RECURSIVE LeadingSpaces(_, _)
LeadingSpaces(line, limit) ==
    IF limit = 0 \/ line = <<>> \/ Head(line) # SPACE THEN 0
    ELSE 1 + LeadingSpaces(Tail(line), limit - 1)

\* One line of a block scalar: st = [ok, res, textIndent, detectedIndent,
\* emptyLines, atMoreIndented, didReadContent].
readBlockLine(st, line, folding) ==
    LET lineIndent == LeadingSpaces(line, IF st.detectedIndent THEN st.textIndent
                                          ELSE Len(line))
        textIndent == IF ~st.detectedIndent /\ lineIndent > st.textIndent
                      THEN lineIndent ELSE st.textIndent
        rest == Slice(line, lineIndent, Len(line))
        breaks ==
            IF folding
            THEN (IF isWhiteSpace(rest[1])
                  THEN Repeat(LINE_FEED, IF st.didReadContent THEN 1 + st.emptyLines
                                         ELSE st.emptyLines)
                  ELSE IF st.atMoreIndented THEN Repeat(LINE_FEED, st.emptyLines + 1)
                  ELSE IF st.emptyLines = 0
                  THEN (IF st.didReadContent THEN <<SPACE>> ELSE <<>>)
                  ELSE Repeat(LINE_FEED, st.emptyLines))
            ELSE Repeat(LINE_FEED, IF st.didReadContent THEN 1 + st.emptyLines
                                   ELSE st.emptyLines)
    IN  IF ~st.ok THEN st
        ELSE IF rest = <<>>
        THEN [st EXCEPT !.textIndent = textIndent, !.emptyLines = st.emptyLines + 1]
        ELSE IF lineIndent < textIndent THEN [st EXCEPT !.ok = FALSE]
        ELSE [ok |-> TRUE, res |-> st.res \o breaks \o rest, textIndent |-> textIndent,
              detectedIndent |-> TRUE, emptyLines |-> 0,
              atMoreIndented |-> folding /\ isWhiteSpace(rest[1]),
              didReadContent |-> TRUE]

RECURSIVE readBlockLines(_, _, _, _)
readBlockLines(st, lines, i, folding) ==
    IF i > Len(lines) THEN st
    ELSE readBlockLines(readBlockLine(st, lines[i], folding), lines, i + 1, folding)

\* Literal and folded: text is the scalar with the line break that ends its
\* last line; nodeIndent is the indentation of the parent node plus one.
readBlockScalar(text, nodeIndent) ==
    LET folding == At(text, 0) = GREATER_THAN
        headerEnd == IndexOfFrom(text, LINE_FEED, 0)
        header == Slice(text, 1, headerEnd)
        digits == SelectSeq(header, LAMBDA c : c \in 49..57)
        chomps == SelectSeq(header, LAMBDA c : c \in {PLUS, MINUS})
        wellFormed == /\ headerEnd # -1 /\ text[Len(text)] = LINE_FEED
                      /\ Len(digits) <= 1 /\ Len(chomps) <= 1
                      /\ Len(header) = Len(digits) + Len(chomps)
        body == Split(Slice(text, headerEnd + 1, Len(text)))
        lines == SubSeq(body, 1, Len(body) - 1)
        st0 == [ok |-> TRUE, res |-> <<>>,
                textIndent |-> IF digits # <<>> THEN nodeIndent + (digits[1] - 48) - 1
                               ELSE nodeIndent,
                detectedIndent |-> digits # <<>>, emptyLines |-> 0,
                atMoreIndented |-> FALSE, didReadContent |-> FALSE]
        st == readBlockLines(st0, lines, 1, folding)
        kept == Repeat(LINE_FEED, IF st.didReadContent THEN 1 + st.emptyLines
                                  ELSE st.emptyLines)
    IN  IF ~wellFormed \/ ~st.ok THEN Bad
        ELSE IF chomps = <<PLUS>> THEN Good(st.res \o kept)
        ELSE IF chomps = <<>> /\ st.didReadContent THEN Good(st.res \o <<LINE_FEED>>)
        ELSE Good(st.res)

\* Reads a scalar by the rule of the style its first character announces.
readScalar(text, nodeIndent) ==
    CASE At(text, 0) = SINGLE_QUOTE -> readSingleQuotedScalar(text)
      [] At(text, 0) = DOUBLE_QUOTE -> readDoubleQuotedScalar(text)
      [] At(text, 0) \in {VERTICAL_LINE, GREATER_THAN} ->
           readBlockScalar(text \o <<LINE_FEED>>, nodeIndent)
      [] OTHER -> readPlainScalar(text)

\* The indentation of the node that holds a scalar of the given level: that
\* of a collection one level up, and -1 for the document.
parentIndent(c, level) == IF level = 0 THEN -1 ELSE c.indent * (level - 1)

(***************************************************************************)
(* C7.  For every non-empty string, reading the output of the scalar       *)
(* encoder by the rule of the style it chose (plain; single-quoted with    *)
(* doubled quotes; literal and folded with their indentation and chomping  *)
(* indicators and line unfolding; double-quoted with escapes) yields       *)
(* exactly the original string.                                            *)
(***************************************************************************)
C7_RoundTrip ==
    (ScalarDone /\ Len(sString) >= 1) =>
        readScalar(sResult.s, parentIndent(cfg, sLevel) + 1) = Good(sString)

(***************************************************************************)
(* C8.  With sortKeys = true the keys of every mapping in the output       *)
(* stand in ascending lexicographic (code-unit) order, in block and in     *)
(* flow layout.                                                            *)
(***************************************************************************)
\* The positions in text at which key stands as the key of a pair.
KeyPositions(text, key) ==
    {i \in 0..(Len(text) - Len(key)) :
        /\ SubSeq(text, i + 1, i + Len(key)) = key
        /\ \/ At(text, i + Len(key)) = COLON
           \/ At(text, i + Len(key)) = DOUBLE_QUOTE /\ At(text, i + Len(key) + 1) = COLON}

C8_SortedKeys ==
    (Returned /\ cfg.sortKeys = "true") =>
        \A e \in LogEntries :
            LET o == heap[e.id]
            IN  o.kind = "object" =>
                    \A i \in ValidAt(o), j \in ValidAt(o) :
                        LexLess(o.keys[i], o.keys[j]) =>
                            \A p \in KeyPositions(returned.s, o.keys[i]),
                               q \in KeyPositions(returned.s, o.keys[j]) : p < q

(***************************************************************************)
(* C9.  With flowLevel = F >= 0 every collection at nesting depth >= F is  *)
(* rendered in flow layout, and no collection inside a flow collection is  *)
(* rendered in block layout, for both settings of arrayIndent.             *)
(***************************************************************************)
C9_FlowFromDepth ==
    (Returned /\ cfg.flowLevel >= 0) =>
        \A e \in LogEntries :
            /\ e.depth >= cfg.flowLevel => ~e.block
            /\ ~e.asked => ~e.block

(***************************************************************************)
(* C10.  A flow mapping renders as "{" + its pairs + "}", each pair        *)
(* "key: value", joined by ", "; with condenseFlow the pairs are joined by *)
(* "," with no space and the space after the ":" of each pair is omitted.  *)
(***************************************************************************)
\* A pair of a flow mapping; in condensed mode the key may carry the quote
\* markers.
FlowPair(key, value, condensed, quoted) ==
    LET q == IF quoted THEN <<DOUBLE_QUOTE>> ELSE <<>>
    IN  q \o key \o q \o <<COLON>> \o (IF condensed THEN <<>> ELSE <<SPACE>>) \o value

FlowMappingText(o, condensed, quoted) ==
    <<LEFT_CURLY_BRACKET>> \o
    Join([i \in 1..Len(o.keys) |-> FlowPair(o.keys[i], o.items[i].s, condensed, quoted)],
         IF condensed THEN <<COMMA>> ELSE <<COMMA, SPACE>>) \o
    <<RIGHT_CURLY_BRACKET>>

C10_FlowMappingFormat ==
    (Returned /\ cfg.sortKeys = "false") =>
        \A e \in LogEntries :
            LET o == heap[e.id]
            IN  (/\ o.kind = "object" /\ ~e.block /\ Len(o.items) >= 1
                 /\ \A i \in 1..Len(o.items) : o.items[i] = Str(LeafText)) =>
                    \E quoted \in BOOLEAN :
                        /\ quoted => cfg.condenseFlow
                        /\ Contains(returned.s, FlowMappingText(o, cfg.condenseFlow, quoted))

(***************************************************************************)
(* C11.  Nothing recorded by one stringify call outlives it: when a call   *)
(* starts, the duplicate registry and the used set hold no node of an      *)
(* earlier call, and the output of a call is that of the same call on a    *)
(* fresh DumperState of the same configuration.                            *)
(***************************************************************************)
C11_NothingOutlivesACall ==
    /\ pc = "ready" => (duplicates = <<>> /\ usedDuplicates = {})
    /\ Done =>
          returned.s = stringify(cfg, heap, <<>>, {}, data).returned.s

(***************************************************************************)
(* C12.  For every sortKeys value that is neither a boolean nor a          *)
(* comparator function, stringify of a tree that holds a mapping raises    *)
(* the configuration error and produces no output, whatever the layout     *)
(* (block or flow) of the mapping.                                         *)
(***************************************************************************)
C12_InvalidSortKeysRaises ==
    (/\ Done /\ cfg.sortKeys \in {"truthy", "falsy"}
     /\ \E o \in Reach(heap, data) : heap[o].kind = "object") =>
        /\ returned.st = "throw"
        /\ returned.err = InvalidSortKeys
        /\ returned.s = <<>>

(***************************************************************************)
(* The tar entry reader.                                                   *)
(***************************************************************************)
FileContent(size) == [k \in 1..size |-> ContentByte(k - 1)]

\* C13: the bytes TarEntry.read delivers up to its first null return are
\* exactly the fileSize content bytes in order, for every sequence of
\* non-empty buffer sizes: what has been delivered is always a prefix of
\* the content (no padding byte, nothing lost or repeated), no call fails,
\* and once null has been returned the whole content has been delivered.
C13_ReadDeliversContent ==
    pc = "tar" =>
        /\ Len(delivered) <= entry.size
        /\ delivered = SubSeq(FileContent(entry.size), 1, Len(delivered))
        /\ lastRead.st \in {"none", "ok", "null"}
        /\ lastRead.st = "null" => delivered = FileContent(entry.size)

\* A file whose last block is padded has been read in several pieces, the
\* last ones taken from the padded block, until null came back.
C13_Witness ==
    /\ pc = "tar"
    /\ lastRead.st = "null"
    /\ entry.size = HEADER_LENGTH + 1
    /\ entry.read > entry.size
    /\ entry.read < entry.entrySize
    /\ delivered = FileContent(entry.size)

(***************************************************************************)
(* Strings inside flow collections and in key position.                    *)
(***************************************************************************)
\* The container under test (object 2) holds the two-line string only at
\* places that take single-line styles: it was rendered in flow layout, or
\* it is a block mapping whose key is the two-line string and whose value
\* is "a".
OnlySingleLinePlaces ==
    /\ \E i \in DOMAIN heap[2].items :
          \/ heap[2].items[i] = Str(TwoLines)
          \/ heap[2].kind = "object" /\ heap[2].keys[i] = TwoLines
    /\ \E e \in LogEntries :
          /\ e.id = 2
          /\ ~e.block \/ (heap[2].kind = "object" /\ heap[2].items[1] = Str(LeafText))

BlockStyleEmitted ==
    Contains(returned.s, <<VERTICAL_LINE>>) \/ Contains(returned.s, <<GREATER_THAN>>)

\* C14: a string rendered as an element of a flow sequence, as a key or a
\* value of a flow mapping, or as a block-mapping key is never emitted in
\* literal (|) or folded (>) block style, whatever flowLevel, level and
\* arrayIndent are.
C14_NoBlockStyleInFlow ==
    (Returned /\ OnlySingleLinePlaces) => ~BlockStyleEmitted

(***************************************************************************)
(* The duplicate registry after the pre-scan.                              *)
(***************************************************************************)
\* The number of containment paths of at most k steps that lead from
\* object o to object d (the empty path included when o = d).
RECURSIVE PathsVia(_, _, _, _, _)
PathsVia(h, entries, i, d, k) ==
    IF i > Len(entries) THEN 0
    ELSE (IF isObject(entries[i])
          THEN (IF entries[i].id = d THEN 1 ELSE 0) +
               (IF k > 1 THEN PathsVia(h, h[entries[i].id].items, 1, d, k - 1) ELSE 0)
          ELSE 0) + PathsVia(h, entries, i + 1, d, k)

PathsFrom(h, o, d, k) == (IF o = d THEN 1 ELSE 0) + PathsVia(h, h[o].items, 1, d, k)

\* More than one containment path leads from the root to d.  Two distinct
\* paths, when they exist, exist within twice the number of objects.
MultiPath(h, value, d) ==
    isObject(value) /\ PathsFrom(h, value.id, d, 2 * Cardinality(Objs)) > 1

Registry == {duplicates[i] : i \in DOMAIN duplicates}
Found == {scan.duplicateObjects[i] : i \in DOMAIN scan.duplicateObjects}
Scanned == Done /\ cfg.useAnchors /\ ~scan.overflow

\* C15 as stated: after the pre-scan of the first call a node is in the
\* registry iff more than one containment path leads to it from the root.
C15_Original ==
    (Scanned /\ calls = 1) =>
        \A d \in Objs : d \in Registry <=> MultiPath(heap, data, d)

\* C15: the pre-scan finds a node as a duplicate iff it meets it more than
\* once, that is iff the node occurs at least twice, counting the root and
\* every entry of every container of the tree once; on the first call the
\* registry holds exactly the nodes found, each once.  Membership goes by
\* identity: a node that occurs once is not registered, whatever other
\* node has equal content.
C15_RegisteredIffMetTwice ==
    Scanned =>
        /\ \A d \in Objs : d \in Found <=> Occurrences(heap, data, d) >= 2
        /\ Cardinality(Found) = Len(scan.duplicateObjects)
        /\ calls = 1 => duplicates = scan.duplicateObjects

\* The root holds object 2 twice: object 2 is registered, and the object it
\* holds, to which two paths lead, is not.
C15_Witness ==
    /\ Scanned /\ calls = 1
    /\ heap[1].items = <<Ref(2), Ref(2)>>
    /\ heap[2].items = <<Ref(3)>>
    /\ MultiPath(heap, data, 3)
    /\ Registry = {2}

(***************************************************************************)
(* The numbering of the duplicates.                                        *)
(***************************************************************************)
MinOf(S) == CHOOSE x \in S : \A y \in S : x <= y

\* The nodes found as duplicates, in the order of their first discovery by
\* the scan.
InDiscoveryOrder == SelectSeq(scan.objects, LAMBDA o : o \in Found)

StyleChosen ==
    chooseScalarStyle(sString, singleLineOnly(cfg, sLevel, sIsKey), cfg.indent,
                      scalarLineWidth(cfg, sLevel), testImplicitResolving(sString))

HasLineFeed(string) == \E i \in DOMAIN string : string[i] = LINE_FEED

\* C17: for a non-empty string, plain or single-quote style is returned
\* only when the string holds no line feed, in single-line-only mode and in
\* block-permitted mode alike; a string with a line feed gets literal,
\* folded or double-quote style, and is emitted with the matching indicator.
C17_NoLineFeedInPlainOrSingle ==
    (ScalarDone /\ Len(sString) > 0) =>
        /\ StyleChosen \in {STYLE_PLAIN, STYLE_SINGLE} => ~HasLineFeed(sString)
        /\ HasLineFeed(sString) =>
              /\ StyleChosen \in {STYLE_LITERAL, STYLE_FOLDED, STYLE_DOUBLE}
              /\ At(sResult.s, 0) \in {VERTICAL_LINE, GREATER_THAN, DOUBLE_QUOTE}

\* A string with a line feed was encoded in single-line-only mode.
C17_Witness ==
    /\ ScalarDone
    /\ HasLineFeed(sString)
    /\ singleLineOnly(cfg, sLevel, sIsKey)
    /\ StyleChosen = STYLE_DOUBLE
    /\ At(sResult.s, 0) = DOUBLE_QUOTE

\* A line that can be folded at the given width: longer than the width and
\* not starting with a space.
FoldableLine(line, width) == Len(line) > width /\ At(line, 0) # SPACE

HasFoldableLine(string, width) ==
    \E k \in DOMAIN Split(string) : FoldableLine(Split(string)[k], width)

\* C18: folded style is returned only when lineWidth is not -1 and some
\* line of the string is longer than the active width and does not start
\* with a space; literal style is returned only when no line is foldable;
\* with lineWidth = -1 folded style is never returned.  The result carries
\* the indicator of the style returned.
C18_FoldedOnlyWhenFoldable ==
    (ScalarDone /\ Len(sString) > 0) =>
        /\ StyleChosen = STYLE_FOLDED =>
              /\ cfg.lineWidth # -1
              /\ HasFoldableLine(sString, scalarLineWidth(cfg, sLevel))
              /\ At(sResult.s, 0) = GREATER_THAN
        /\ StyleChosen = STYLE_LITERAL =>
              /\ cfg.lineWidth # -1 => ~HasFoldableLine(sString, scalarLineWidth(cfg, sLevel))
              /\ At(sResult.s, 0) = VERTICAL_LINE
        /\ cfg.lineWidth = -1 => At(sResult.s, 0) # GREATER_THAN

\* A string of two lines, the first longer than the active width, was
\* folded.
C18_Witness ==
    /\ ScalarDone
    /\ cfg.lineWidth # -1
    /\ HasLineFeed(sString)
    /\ FoldableLine(Split(sString)[1], scalarLineWidth(cfg, sLevel))
    /\ StyleChosen = STYLE_FOLDED
    /\ At(sResult.s, 0) = GREATER_THAN

(***************************************************************************)
(* The active line width.                                                  *)
(***************************************************************************)
Max(a, b) == IF a > b THEN a ELSE b

\* C19: when lineWidth is not -1 the active width at a level is
\* max(min(lineWidth, 40), lineWidth - indent * max(1, level)); it does not
\* increase with the level and is never below min(lineWidth, 40); when
\* lineWidth is -1 the width is unlimited (-1) at every level.
C19_ActiveWidth ==
    ScalarDone =>
        /\ cfg.lineWidth # -1 =>
              /\ scalarLineWidth(cfg, sLevel) =
                    Max(Min(cfg.lineWidth, 40), cfg.lineWidth - cfg.indent * Max(1, sLevel))
              /\ scalarLineWidth(cfg, sLevel) >= Min(cfg.lineWidth, 40)
              /\ \A l \in 0..sLevel : scalarLineWidth(cfg, l) >= scalarLineWidth(cfg, sLevel)
        /\ cfg.lineWidth = -1 => scalarLineWidth(cfg, sLevel) = -1

\* lineWidth 45, indent 2: the width has come down from 43 at level 0 to
\* the lower bound 40 at level 3.
C19_Witness ==
    /\ ScalarDone
    /\ cfg.lineWidth = 45 /\ cfg.indent = 2 /\ sLevel = 3
    /\ scalarLineWidth(cfg, 0) = 43
    /\ scalarLineWidth(cfg, 2) = 41
    /\ scalarLineWidth(cfg, sLevel) = 40

(***************************************************************************)
(* foldLine.                                                               *)
(***************************************************************************)
FoldDone == pc = "fold" /\ fResult.st = "ok"

\* C20: foldLine only turns spaces into line breaks.  The result has the
\* length of the line and differs from it only where it has a line feed
\* for a space that is directly followed by a non-space (so replacing each
\* break by a space gives back the line); no line of the result starts with
\* a space unless the line given does; an empty line and a line starting
\* with a space are returned unchanged.
C20_FoldTurnsSpacesIntoBreaks ==
    FoldDone =>
        /\ Len(fResult.s) = Len(fLine)
        /\ \A i \in DOMAIN fLine :
              \/ fResult.s[i] = fLine[i]
              \/ /\ fResult.s[i] = LINE_FEED
                 /\ fLine[i] = SPACE
                 /\ i < Len(fLine)
                 /\ fLine[i + 1] # SPACE
        /\ At(fLine, 0) # SPACE =>
              \A k \in DOMAIN Split(fResult.s) : At(Split(fResult.s)[k], 0) # SPACE
        /\ (fLine = <<>> \/ At(fLine, 0) = SPACE) => fResult.s = fLine

\* A line with two adjacent spaces was broken at two places.
C20_Witness ==
    /\ FoldDone
    /\ Contains(fLine, <<SPACE, SPACE>>)
    /\ Len(Split(fResult.s)) >= 3

\* The lines foldLine produced.
Produced == Split(fResult.s)

\* Where a line started at the front of text can first end: the index of
\* the first space of text that is directly followed by a non-space, or
\* the length of text when there is none.
FirstStop(text) ==
    IF breakMatches(text) = <<>> THEN Len(text) ELSE breakMatches(text)[1]

\* C21: foldLine is greedy.  A produced line that is followed by a break and
\* is not longer than width is the longest one possible: with the text up
\* to the next place where a line can end it would exceed width.  A
\* produced line longer than width holds no break boundary: it ends at the
\* first boundary available, or is the whole remainder.
C21_FoldLineGreedy ==
    (FoldDone /\ fLine # <<>> /\ At(fLine, 0) # SPACE) =>
        \A k \in DOMAIN Produced :
            /\ (k < Len(Produced) /\ Len(Produced[k]) <= fWidth) =>
                  Len(Produced[k]) + 1 + FirstStop(Produced[k + 1]) > fWidth
            /\ Len(Produced[k]) > fWidth => breakMatches(Produced[k]) = <<>>

\* Three lines were produced, one of them within width and followed by a
\* break, one of them longer than width.
C21_Witness ==
    /\ FoldDone
    /\ Len(Produced) >= 3
    /\ \E k \in DOMAIN Produced : k < Len(Produced) /\ Len(Produced[k]) <= fWidth
    /\ \E k \in DOMAIN Produced : Len(Produced[k]) > fWidth

\* The variables of foldLine's loop after its first j iterations (j = 0:
\* before the loop).
LoopStateAfter(j) ==
    foldLoop(fLine, fWidth, SubSeq(breakMatches(fLine), 1, j), 1,
             [start |-> 0, curr |-> 0, next |-> 0, lines |-> <<>>])

\* C22: after every iteration of foldLine's loop over the break candidates
\* the documented invariants hold: 0 <= start <= length-1,
\* 0 <= curr <= next <= max(0, length-2), and curr - start <= width.
C22_LoopInvariants ==
    (FoldDone /\ fLine # <<>> /\ At(fLine, 0) # SPACE) =>
        \A j \in 0..Len(breakMatches(fLine)) :
            /\ 0 <= LoopStateAfter(j).start
            /\ LoopStateAfter(j).start <= Len(fLine) - 1
            /\ 0 <= LoopStateAfter(j).curr
            /\ LoopStateAfter(j).curr <= LoopStateAfter(j).next
            /\ LoopStateAfter(j).next <= Max(0, Len(fLine) - 2)
            /\ LoopStateAfter(j).curr - LoopStateAfter(j).start <= fWidth

(***************************************************************************)
(* Untar.extract after an entry.                                           *)
(***************************************************************************)
\* C23: when Untar.extract reads the next header block, the reader has
\* advanced past the previous entry by exactly its padded size, whatever
\* the caller did with the entry before (no read, some reads, reads until
\* null, discard), with and without a seek method: the block read is the
\* one that follows the entry, and the entry is consumed.
C23_HeaderFollowsPaddedEntry ==
    (pc = "tar" /\ headerRead.st # "none") =>
        /\ headerRead.at = CeilDiv(entry.size, HEADER_LENGTH) * HEADER_LENGTH
        /\ headerRead.st = "null"
        /\ reader.pos = headerRead.at + HEADER_LENGTH
        /\ entry.consumed

\* The caller took one byte of a 513-byte entry from a reader without seek
\* and called extract: the header was read behind the second block.
C23_Witness ==
    /\ pc = "tar"
    /\ headerRead.st = "null"
    /\ ~seekable
    /\ entry.size = HEADER_LENGTH + 1
    /\ Len(delivered) = 1
    /\ lastRead.st = "ok"
    /\ headerRead.at = 2 * HEADER_LENGTH
====
